---- MODULE Spec2Model ----
(***************************************************************************)
(* Device service runtime of device-sdk-go (Circutor Modbus fork):         *)
(*   - the callback reconciler (package callback: CallbackHandler,         *)
(*     handleDevice, handleProfile) over the device and profile caches and *)
(*     the AutoEvent manager;                                               *)
(*   - the Modbus driver (package modbus: getClient, releaseClient,        *)
(*     HandleReadCommands, HandleWriteCommands, updateOperatingState,      *)
(*     discoverScan) over the pool of connection handles.                  *)
(* Goroutines are modelled as processes whose steps are the places where   *)
(* the code takes a lock, calls Core or does device I/O.                   *)
(***************************************************************************)
EXTENDS Integers, Sequences, FiniteSets, TLC

\* ---------------------------------------------------------------- bounds
\* largest number of AutoEvents a device fetched from Metadata carries
MaxAuto == 1
\* largest number of CommandRequests in one read or write command
MaxReqs == 2
\* commands and discovery scans started in one behaviour
MaxCmds == 3
\* callbacks started in one behaviour
MaxCallbacks == 2
MaxPuts == 1
MaxRetries == 2
MaxSchedOps == 3
MaxDiscover == 2

\* ---------------------------------------------------------------- values
DevIds == {"d1", "d2"}
DevName(id) == IF id = "d1" THEN "X" ELSE IF id = "d2" THEN "Y" ELSE ""
DevNames == {DevName(id) : id \in DevIds}
ProfNames == {"pA", "pB"}
Workers == {"w1", "w2"}
Callers == {"c1", "c2"}

Enabled == "ENABLED"
Disabled == "DISABLED"
Locked == "LOCKED"
Unlocked == "UNLOCKED"

\* the serial port of the RTU bus, and a Modbus TCP endpoint host:port
SerialAddress == "/dev/ttyS1"
TcpAddress == "10.0.0.1:502"
Keys == {SerialAddress, TcpAddress}
\* a *ModbusDevice is the key it was made for and its number; nil
NilHandle == <<"", 0>>

\* protocols of a device: the ModbusTCP or the ModbusRTU property map
ProtoTCP == [kind |-> "ModbusTCP", addr |-> TcpAddress, unit |-> 0]
ProtoRTU(u) == [kind |-> "ModbusRTU", addr |-> SerialAddress, unit |-> u]
NoProto == [kind |-> "", addr |-> "", unit |-> 0]

\* models.Device; the zero value is what a failed cache lookup returns
MkDevice(id, prof, proto, op, adm, n) ==
    [id |-> id, name |-> DevName(id), profile |-> prof, protocols |-> proto,
     opState |-> op, adminState |-> adm, nAuto |-> n]
ZeroDevice == [id |-> "", name |-> "", profile |-> "", protocols |-> NoProto,
               opState |-> "", adminState |-> "", nAuto |-> 0]

\* ---------------------------------------------------------------- state
VARIABLES
    devices,    \* device cache: device id -> models.Device (name is 1:1 with id)
    profiles,   \* profile cache: names of the cached profiles
    sched,      \* AutoEvent manager: device name -> number of entries
    cb,         \* callback goroutines
    cbStarted,  \* callbacks started so far
    mMap,       \* handle key -> number of its ModbusDevice, 0 for nil
    mapMutex,   \* the caller that locked mapMutex, "" when unlocked
    mutex,      \* ModbusDevice.mutex per handle: TRUE when locked
    rtuHandler, \* ModbusDevice.rtuHandler.SlaveId per handle, 0 when unset
    crashed,    \* the process died (fatal error or unrecovered panic)
    call,       \* command and discovery goroutines
    started,    \* commands and scans started so far
    opCalls,    \* UpdateOpStateByName calls issued, in order
    transLog,   \* changes of a cached operating state made by the driver
    boot,       \* the bootstrap of the service: phase, dependency checkers
    cron,       \* the scheduler: cron engine, entryMap, the calls in progress
    conv,       \* one resource of a profile and the payload converted for it
    disc,       \* discovery: the watcher cache and the devices created in Core
    core        \* Core Metadata: the UpdateOpStateByName calls that arrived
                \* and the operating state they left for each device

vars == <<devices, profiles, sched, cb, cbStarted, mMap, mapMutex, mutex,
          rtuHandler, crashed,
          call, started, opCalls, transLog, boot, cron, conv, disc, core>>
cacheVars == <<devices, profiles, sched>>
busVars == <<mMap, mapMutex, mutex, rtuHandler, crashed, call, started, opCalls,
            transLog>>
cbVars == <<cb, cbStarted>>
sysVars == <<boot, cron>>
auxVars == <<conv, disc, core>>

\* ---------------------------------------------------------------- cache
\* cache.Devices(): ForId / ForName / Add / Update / Remove
DevForId(id) == id \in DOMAIN devices
DevForName(n) == \E id \in DOMAIN devices : devices[id].name = n
DevByName(n) ==
    IF DevForName(n)
    THEN devices[CHOOSE id \in DOMAIN devices : devices[id].name = n]
    ELSE ZeroDevice
\* Add fails on a name collision
DevAddOk(d) == ~DevForName(d.name) /\ d.id \notin DOMAIN devices
DevAdd(d) == [id \in DOMAIN devices \cup {d.id} |->
                 IF id = d.id THEN d ELSE devices[id]]
\* Update keeps the identity (same id) and replaces the attributes
DevUpdateOk(d) == d.id \in DOMAIN devices
DevUpdate(d) == [devices EXCEPT ![d.id] = d]
\* Remove of a missing id is an error that changes nothing
DevRemoveOk(id) == id \in DOMAIN devices
DevRemove(id) == [x \in DOMAIN devices \ {id} |-> devices[x]]

\* cache.Profiles(): ForName / Add / Update
ProfForName(p) == p \in profiles
ProfAddOk(p) == p \notin profiles
ProfAdd(p) == profiles \cup {p}
ProfUpdateOk(p) == p \in profiles

\* InitCache: the devices of this service, and the profiles the devices and
\* the provision watchers refer to
InitCacheDevices(ds) == [id \in {d.id : d \in ds} |->
                            CHOOSE d \in ds : d.id = id]
\* a seed of the profile cache that forgets the provision watchers
InitCacheProfiles_DevicesOnly(ds, pws) == {d.profile : d \in ds}

InitCacheProfiles(ds, pws) == {d.profile : d \in ds} \cup pws

\* ---------------------------------------------------------------- scheduler
\* entries the manager installs for a device of the cache
EntriesFor(d) == IF d.adminState = Locked THEN 0 ELSE d.nAuto
\* StartAll: one timer per AutoEvent of every cached device
StartAll(devs) == [n \in DevNames |->
    IF \E id \in DOMAIN devs : devs[id].name = n
    THEN EntriesFor(devs[CHOOSE id \in DOMAIN devs : devs[id].name = n])
    ELSE 0]
\* RestartForDevice: remove the entries of the name, install from the cache
RestartForDevice(n) ==
    [sched EXCEPT ![n] = IF DevForName(n) THEN EntriesFor(DevByName(n)) ELSE 0]
\* StopForDevice: remove the entries of the name
StopForDevice(n) == [sched EXCEPT ![n] = 0]

\* ---------------------------------------------------------------- Metadata
\* what DeviceClient.Device(id) and DeviceProfileClient.DeviceProfile(id)
\* can answer: an error, or the record Metadata holds for the id
FetchErr == [ok |-> FALSE, dev |-> ZeroDevice, prof |-> ""]
DeviceFetches(id, M) ==
    {FetchErr} \cup {[ok |-> TRUE, dev |-> d, prof |-> ""] : d \in {x \in M : x.id = id}}
ProfileFetches(id) ==
    {FetchErr} \cup {[ok |-> TRUE, dev |-> ZeroDevice, prof |-> p] : p \in {x \in ProfNames : x = id}}

\* the fetch a callback of this action type makes
Fetches(at, id, M) ==
    IF at = "PROFILE" THEN ProfileFetches(id) ELSE DeviceFetches(id, M)

\* devices Metadata may hold while the catalog is edited
MetaDevicesCb ==
    {MkDevice("d1", p, ProtoTCP, Enabled, a, n) :
        p \in ProfNames, a \in {Locked, Unlocked}, n \in 0..MaxAuto}
\* devices Metadata may hold while only their connection data changes
MetaDevicesCmd ==
    {MkDevice(id, "pA", pr, Enabled, Unlocked, 0) :
        id \in DevIds, pr \in {ProtoTCP, ProtoRTU(1)}}

ActionTypes == {"DEVICE", "PROFILE", "ADDRESSABLE", ""}
Methods == {"POST", "PUT", "DELETE", "GET"}
\* ids a callback carries: a device id, a profile id, none
CbIds == {"d1", "pA", ""}

\* ---------------------------------------------------------------- callbacks
IdleCb == [pc |-> "idle", action |-> "", method |-> "", id |-> "",
           dev |-> ZeroDevice, prof |-> "", res |-> "", calls |-> <<>>,
           hadProf |-> "", found |-> "", fetch |-> ""]
BadRequest == "BadRequest"
ServerError == "ServerError"
\* the part of a device the handler still reads once the cache holds it
NameOnly(d) == [ZeroDevice EXCEPT !.id = d.id, !.name = d.name]
CbDone(r, res) == [r EXCEPT !.pc = "done", !.res = res, !.dev = NameOnly(@)]
CbCall(r, op, arg) == [r EXCEPT !.calls = Append(@, <<op, arg>>)]

\* a handleDevice that goes on with the zero device when the fetch failed
handleDeviceEntry_FetchIgnored(r, f) ==
    IF r.method = "POST"
    THEN [r EXCEPT !.pc = "post_prof", !.dev = f.dev,
                   !.fetch = IF f.ok THEN "ok" ELSE "err"]
    ELSE IF r.method = "PUT"
    THEN [r EXCEPT !.pc = "put_upd", !.dev = f.dev,
                   !.fetch = IF f.ok THEN "ok" ELSE "err"]
    ELSE IF r.method = "DELETE"
    THEN [r EXCEPT !.pc = "del_find"]
    ELSE CbDone(r, BadRequest)

\* handleDevice up to its first cache or scheduler access: the method
\* dispatch and the fetch of the device from Metadata
handleDeviceEntry(r, f) ==
    IF r.method = "POST"
    THEN IF f.ok THEN [r EXCEPT !.pc = "post_prof", !.dev = f.dev, !.fetch = "ok"]
                 ELSE CbDone([r EXCEPT !.fetch = "err"], BadRequest)
    ELSE IF r.method = "PUT"
    THEN IF f.ok THEN [r EXCEPT !.pc = "put_upd", !.dev = f.dev, !.fetch = "ok"]
                 ELSE CbDone([r EXCEPT !.fetch = "err"], BadRequest)
    ELSE IF r.method = "DELETE"
    THEN [r EXCEPT !.pc = "del_find"]
    ELSE CbDone(r, BadRequest)

\* handleProfile up to its cache access
handleProfileEntry(r, f) ==
    IF r.method = "PUT"
    THEN IF f.ok THEN [r EXCEPT !.pc = "prof_upd", !.prof = f.prof, !.fetch = "ok"]
                 ELSE CbDone([r EXCEPT !.fetch = "err"], BadRequest)
    ELSE CbDone(r, BadRequest)

\* a CallbackHandler that takes every action type but PROFILE for a device
CallbackHandler_AnyAction(w, at, m, id, f) ==
    /\ ~crashed
    /\ cb[w].pc = "idle"
    /\ cbStarted < MaxCallbacks
    /\ cbStarted' = cbStarted + 1
    /\ LET r == [IdleCb EXCEPT !.action = at, !.method = m, !.id = id]
       IN cb' = [cb EXCEPT ![w] =
                   IF id = "" \/ at = "" THEN CbDone(r, BadRequest)
                   ELSE IF at = "PROFILE" THEN handleProfileEntry(r, f)
                   ELSE handleDeviceEntry(r, f)]
    /\ UNCHANGED <<sysVars, auxVars, cacheVars, busVars>>

\* CallbackHandler(cbAlert, method); f is the answer of Metadata to the fetch
CallbackHandler(w, at, m, id, f) ==
    /\ ~crashed
    /\ cb[w].pc = "idle"
    /\ cbStarted < MaxCallbacks
    /\ cbStarted' = cbStarted + 1
    /\ LET r == [IdleCb EXCEPT !.action = at, !.method = m, !.id = id]
       IN cb' = [cb EXCEPT ![w] =
                   IF id = "" \/ at = "" THEN CbDone(r, BadRequest)
                   ELSE IF at = "DEVICE" THEN handleDeviceEntry(r, f)
                   ELSE IF at = "PROFILE" THEN handleProfileEntry(r, f)
                   ELSE CbDone(r, BadRequest)]
    /\ UNCHANGED <<sysVars, auxVars, cacheVars, busVars>>

\* a POST that adds the profile without looking it up first
PostProfForName_NoLookup(w) ==
    /\ ~crashed
    /\ cb[w].pc = "post_prof"
    /\ cb' = [cb EXCEPT ![w].pc = "post_padd", ![w].hadProf = "no"]
    /\ UNCHANGED <<sysVars, auxVars, cbStarted, cacheVars, busVars>>

\* POST: cache.Profiles().ForName(device.Profile.Name)
PostProfForName(w) ==
    /\ ~crashed
    /\ cb[w].pc = "post_prof"
    /\ LET exist == ProfForName(cb[w].dev.profile)
       IN cb' = [cb EXCEPT ![w].pc = IF exist THEN "post_dev" ELSE "post_padd",
                           ![w].hadProf = IF exist THEN "yes" ELSE "no"]
    /\ UNCHANGED <<sysVars, auxVars, cbStarted, cacheVars, busVars>>

\* POST: cache.Profiles().Add(device.Profile)
PostProfAdd(w) ==
    /\ ~crashed
    /\ cb[w].pc = "post_padd"
    /\ LET p == cb[w].dev.profile
           r == CbCall(cb[w], "Profiles.Add", p)
       IN IF ProfAddOk(p)
          THEN /\ profiles' = ProfAdd(p)
               /\ cb' = [cb EXCEPT ![w] = [r EXCEPT !.pc = "post_dev"]]
          ELSE /\ profiles' = profiles
               /\ cb' = [cb EXCEPT ![w] = CbDone(r, ServerError)]
    /\ UNCHANGED <<sysVars, auxVars, cbStarted, devices, sched, busVars>>

\* a POST that takes the profile out again when the device Add fails
PostDevAdd_Rollback(w) ==
    /\ ~crashed
    /\ cb[w].pc = "post_dev"
    /\ LET d == cb[w].dev
           r == CbCall(cb[w], "Devices.Add", d.name)
       IN IF DevAddOk(d)
          THEN /\ devices' = DevAdd(d)
               /\ profiles' = profiles
               /\ cb' = [cb EXCEPT ![w] = [r EXCEPT !.pc = "post_sched",
                                                      !.dev = NameOnly(d)]]
          ELSE /\ devices' = devices
               /\ profiles' = IF cb[w].hadProf = "no"
                               THEN profiles \ {d.profile} ELSE profiles
               /\ cb' = [cb EXCEPT ![w] = CbDone(r, ServerError)]
    /\ UNCHANGED <<sysVars, auxVars, cbStarted, sched, busVars>>

\* POST: cache.Devices().Add(device)
PostDevAdd(w) ==
    /\ ~crashed
    /\ cb[w].pc = "post_dev"
    /\ LET d == cb[w].dev
           r == CbCall(cb[w], "Devices.Add", d.name)
       IN IF DevAddOk(d)
          THEN /\ devices' = DevAdd(d)
               /\ cb' = [cb EXCEPT ![w] = [r EXCEPT !.pc = "post_sched",
                                                      !.dev = NameOnly(d)]]
          ELSE /\ devices' = devices
               /\ cb' = [cb EXCEPT ![w] = CbDone(r, ServerError)]
    /\ UNCHANGED <<sysVars, auxVars, cbStarted, profiles, sched, busVars>>

\* POST: autoevent.GetManager().RestartForDevice(device.Name)
PostRestart(w) ==
    /\ ~crashed
    /\ cb[w].pc = "post_sched"
    /\ sched' = RestartForDevice(cb[w].dev.name)
    /\ cb' = [cb EXCEPT ![w] =
                CbDone(CbCall(cb[w], "RestartForDevice", cb[w].dev.name), "ok")]
    /\ UNCHANGED <<sysVars, auxVars, cbStarted, devices, profiles, busVars>>

\* PUT: cache.Devices().Update(device)
PutUpdate(w) ==
    /\ ~crashed
    /\ cb[w].pc = "put_upd"
    /\ LET d == cb[w].dev
           r == CbCall(cb[w], "Devices.Update", d.name)
       IN IF DevUpdateOk(d)
          THEN /\ devices' = DevUpdate(d)
               /\ cb' = [cb EXCEPT ![w] = [r EXCEPT !.pc = "put_sched",
                                                      !.dev = NameOnly(d)]]
          ELSE /\ devices' = devices
               /\ cb' = [cb EXCEPT ![w] = CbDone(r, ServerError)]
    /\ UNCHANGED <<sysVars, auxVars, cbStarted, profiles, sched, busVars>>

\* PUT: autoevent.GetManager().RestartForDevice(device.Name)
PutRestart(w) ==
    /\ ~crashed
    /\ cb[w].pc = "put_sched"
    /\ sched' = RestartForDevice(cb[w].dev.name)
    /\ cb' = [cb EXCEPT ![w] =
                CbDone(CbCall(cb[w], "RestartForDevice", cb[w].dev.name), "ok")]
    /\ UNCHANGED <<sysVars, auxVars, cbStarted, devices, profiles, busVars>>

\* DELETE: cache.Devices().ForId(id)
DelForId(w) ==
    /\ ~crashed
    /\ cb[w].pc = "del_find"
    /\ cb' = [cb EXCEPT ![w] =
                IF DevForId(cb[w].id)
                THEN [cb[w] EXCEPT !.pc = "del_stop", !.found = "yes",
                                   !.dev = NameOnly(devices[cb[w].id])]
                ELSE [cb[w] EXCEPT !.pc = "del_rm", !.found = "no"]]
    /\ UNCHANGED <<sysVars, auxVars, cbStarted, cacheVars, busVars>>

\* DELETE: autoevent.GetManager().StopForDevice(device.Name)
DelStop(w) ==
    /\ ~crashed
    /\ cb[w].pc = "del_stop"
    /\ sched' = StopForDevice(cb[w].dev.name)
    /\ cb' = [cb EXCEPT ![w] =
                [CbCall(cb[w], "StopForDevice", cb[w].dev.name) EXCEPT !.pc = "del_rm"]]
    /\ UNCHANGED <<sysVars, auxVars, cbStarted, devices, profiles, busVars>>

\* a DELETE that drops the error of Remove
DelRemove_ErrDropped(w) ==
    /\ ~crashed
    /\ cb[w].pc = "del_rm"
    /\ devices' = IF DevRemoveOk(cb[w].id) THEN DevRemove(cb[w].id) ELSE devices
    /\ cb' = [cb EXCEPT ![w] =
                CbDone(CbCall(cb[w], "Devices.Remove", cb[w].id), "ok")]
    /\ UNCHANGED <<sysVars, auxVars, cbStarted, profiles, sched, busVars>>

\* DELETE: cache.Devices().Remove(id)
DelRemove(w) ==
    /\ ~crashed
    /\ cb[w].pc = "del_rm"
    /\ LET r == CbCall(cb[w], "Devices.Remove", cb[w].id)
       IN IF DevRemoveOk(cb[w].id)
          THEN /\ devices' = DevRemove(cb[w].id)
               /\ cb' = [cb EXCEPT ![w] = CbDone(r, "ok")]
          ELSE /\ devices' = devices
               /\ cb' = [cb EXCEPT ![w] = CbDone(r, ServerError)]
    /\ UNCHANGED <<sysVars, auxVars, cbStarted, profiles, sched, busVars>>

\* a profile update that restarts the AutoEvents of device X
ProfUpdate_Restart(w) ==
    /\ ~crashed
    /\ cb[w].pc = "prof_upd"
    /\ sched' = RestartForDevice("X")
    /\ LET r == CbCall(CbCall(cb[w], "Profiles.Update", cb[w].prof),
                       "RestartForDevice", "X")
       IN cb' = [cb EXCEPT ![w] =
                   IF ProfUpdateOk(cb[w].prof) THEN CbDone(r, "ok")
                                               ELSE CbDone(r, ServerError)]
    /\ UNCHANGED <<sysVars, auxVars, cbStarted, devices, profiles, busVars>>

\* PROFILE PUT: cache.Profiles().Update(profile)
ProfUpdate(w) ==
    /\ ~crashed
    /\ cb[w].pc = "prof_upd"
    /\ LET r == CbCall(cb[w], "Profiles.Update", cb[w].prof)
       IN cb' = [cb EXCEPT ![w] =
                   IF ProfUpdateOk(cb[w].prof) THEN CbDone(r, "ok")
                                               ELSE CbDone(r, ServerError)]
    /\ UNCHANGED <<sysVars, auxVars, cbStarted, cacheVars, busVars>>

\* the HTTP handler has written its reply; the goroutine ends
CbReturn(w) ==
    /\ cb[w].pc = "done"
    /\ cb' = [cb EXCEPT ![w] = IdleCb]
    /\ UNCHANGED <<sysVars, auxVars, cbStarted, cacheVars, busVars>>

\* ---------------------------------------------------------------- commands
IdleCall == [pc |-> "idle", kind |-> "", name |-> "", protocols |-> NoProto,
             handle |-> NilHandle, nReq |-> 0, copy |-> ZeroDevice,
             newState |-> "", outs |-> <<>>, res |-> ""]
CallDone(r, res) ==
    [r EXCEPT !.pc = "done", !.res = res, !.protocols = NoProto]

\* HandleReadCommands / HandleWriteCommands(deviceName, protocols, reqs) up
\* to the getClient call: the caller passes the name of a cached device, the
\* protocols it read from the cache and n requests
CommandStart(c, kind, name, n) ==
    /\ ~crashed
    /\ call[c].pc = "idle"
    /\ started < MaxCmds
    /\ DevForName(name)
    /\ started' = started + 1
    /\ call' = [call EXCEPT ![c] =
                  [IdleCall EXCEPT !.pc = "getClient", !.kind = kind,
                                   !.name = name, !.nReq = n,
                                   !.protocols = DevByName(name).protocols]]
    /\ UNCHANGED <<sysVars, auxVars, cacheVars, cbVars, mMap, mapMutex, mutex, rtuHandler, crashed, opCalls, transLog>>

\* ---------------------------------------------------------------- driver
\* driver results
Ok == "ok"
Timeout == "timeout"
IllegalAddress == "illegal data address"
Outcomes == {Ok, Timeout, IllegalAddress}
\* strings.Contains(e.Error(), "timeout")
IsTimeout(e) == e = Timeout

\* Modbus unit ids discoverScan is called with
ScanAddresses == {2}
\* registers discoverScan reads: the model and the serial number
ScanReads == 2

\* getTCPConfig / getRTUConfig: the checks on the protocol properties
ConfigOk(p) ==
    \/ p.kind = "ModbusTCP" /\ p.addr # ""
    \/ p.kind = "ModbusRTU" /\ p.unit # 0 /\ p.unit <= 247

\* sync.Mutex.Unlock on the handle of key h: unlocking an unlocked mutex is
\* a fatal error; the mutex has no owner, so any goroutine's Unlock releases it
Unlock(h) ==
    IF mutex[h]
    THEN mutex' = [mutex EXCEPT ![h] = FALSE] /\ crashed' = crashed
    ELSE mutex' = mutex /\ crashed' = TRUE

\* the caller is between a successful getClient and its releaseClient
InTx(c) == call[c].pc \in {"io", "opRead", "opWrite", "release"}

\* discoverScan(address) up to its getClient call
ScanStart(c, address) ==
    /\ ~crashed
    /\ call[c].pc = "idle"
    /\ started < MaxCmds
    /\ started' = started + 1
    /\ call' = [call EXCEPT ![c] =
                  [IdleCall EXCEPT !.pc = "getClient", !.kind = "scan",
                                   !.protocols = ProtoRTU(address),
                                   !.nReq = ScanReads]]
    /\ UNCHANGED <<sysVars, auxVars, cacheVars, cbVars, mMap, mapMutex, mutex, rtuHandler, crashed, opCalls, transLog>>

\* where a caller goes when getClient returns an error
AfterGetClientErr(r, e) ==
    IF r.kind = "scan" THEN [r EXCEPT !.pc = "scanRelease", !.res = e]
                       ELSE CallDone(r, e)

\* getClient: the configuration of the protocol and mapMutex.Lock()
GetClient(c) ==
    /\ ~crashed
    /\ call[c].pc = "getClient"
    /\ IF ConfigOk(call[c].protocols)
       THEN /\ mapMutex = ""
            /\ mapMutex' = c
            /\ call' = [call EXCEPT ![c].pc = "mapLocked"]
       ELSE /\ mapMutex' = mapMutex
            /\ call' = [call EXCEPT ![c] = AfterGetClientErr(call[c], "config")]
    /\ UNCHANGED <<sysVars, auxVars, cacheVars, cbVars, mMap, mutex, rtuHandler, crashed, started, opCalls, transLog>>

\* a lookup that makes a new ModbusDevice for the key at every call
MapEntry_AlwaysCreate(k) == mMap[k] + 1

\* getClient: if mMap[address] == nil, the ModbusDevice made by
\* createTCPDevice / createRTUDevice is stored under the key
MapEntry(k) == IF mMap[k] = 0 THEN 1 ELSE mMap[k]

\* a caller that leaves the map locked when it goes on to lock the handle
MapUnlock_Late(c) == c

\* getClient: mapMutex.Unlock() once the handle is taken from the map,
\* before modbusDevice.mutex.Lock()
MapUnlock(c) == ""

\* getClient under mapMutex: the ModbusDevice of the key is looked up or
\* created, modbusDevice = mMap[address], mapMutex.Unlock()
MapLookup(c) ==
    /\ ~crashed
    /\ call[c].pc = "mapLocked"
    /\ LET k == call[c].protocols.addr
       IN /\ mMap' = [mMap EXCEPT ![k] = MapEntry(k)]
          /\ call' = [call EXCEPT ![c].pc = "lock",
                                  ![c].handle = <<k, MapEntry(k)>>]
    /\ mapMutex' = MapUnlock(c)
    /\ UNCHANGED <<sysVars, auxVars, cacheVars, cbVars, mutex, rtuHandler, crashed, started, opCalls, transLog>>

\* getClient: modbusDevice.mutex.Lock()
Lock(c) ==
    /\ ~crashed
    /\ call[c].pc = "lock"
    /\ ~mutex[call[c].handle]
    /\ mutex' = [mutex EXCEPT ![call[c].handle] = TRUE]
    /\ call' = [call EXCEPT ![c].pc = "connect"]
    /\ UNCHANGED <<sysVars, auxVars, cacheVars, cbVars, mMap, mapMutex, rtuHandler, crashed, started, opCalls, transLog>>

\* getClient: the settings of the configuration are written to the RTU
\* handler, then connectTCPDevice / connectRTUDevice; on an error the mutex
\* is unlocked and the error returned together with the handle
Connect(c, ok) ==
    /\ ~crashed
    /\ call[c].pc = "connect"
    /\ rtuHandler' = IF call[c].protocols.kind = "ModbusRTU"
                     THEN [rtuHandler EXCEPT ![call[c].handle] =
                              call[c].protocols.unit]
                     ELSE rtuHandler
    /\ IF ok
       THEN /\ call' = [call EXCEPT ![c].pc = "io"]
            /\ UNCHANGED <<mutex, crashed>>
       ELSE /\ Unlock(call[c].handle)
            /\ call' = [call EXCEPT ![c] = AfterGetClientErr(call[c], "connect")]
    /\ UNCHANGED <<sysVars, auxVars, cacheVars, cbVars, mMap, mapMutex, started, opCalls, transLog>>

\* discoverScan: releaseClient(modbusDevice) after a failed getClient
ScanReleaseErr(c) ==
    /\ ~crashed
    /\ call[c].pc = "scanRelease"
    /\ IF call[c].handle = NilHandle
       THEN mutex' = mutex /\ crashed' = TRUE
       ELSE Unlock(call[c].handle)
    /\ call' = [call EXCEPT ![c].pc = "done", ![c].protocols = NoProto]
    /\ UNCHANGED <<sysVars, auxVars, cacheVars, cbVars, mMap, mapMutex, rtuHandler, started, opCalls, transLog>>

\* a handler that repeats a transaction that timed out, up to three attempts
AfterTransaction_Retry(r) ==
    IF IsTimeout(r.outs[Len(r.outs)]) /\ Len(r.outs) < 3
    THEN [r EXCEPT !.pc = "io"]
    ELSE IF r.outs[Len(r.outs)] # Ok \/ Len(r.outs) >= r.nReq
    THEN [r EXCEPT !.pc = "release"]
    ELSE [r EXCEPT !.pc = "io"]

\* where a caller goes after a transaction and its operating state update:
\* an error ends the command, otherwise the next request is served
AfterTransaction(r) ==
    IF r.outs[Len(r.outs)] # Ok \/ Len(r.outs) >= r.nReq
    THEN [r EXCEPT !.pc = "release"]
    ELSE [r EXCEPT !.pc = "io"]

\* readModbus / writeModbus: one Modbus transaction on the handle
Transaction(c, out) ==
    /\ ~crashed
    /\ call[c].pc = "io"
    /\ LET r == [call[c] EXCEPT !.outs = Append(@, out)]
       IN call' = [call EXCEPT ![c] =
                     IF r.kind = "scan" THEN AfterTransaction(r)
                                        ELSE [r EXCEPT !.pc = "opRead"]]
    /\ UNCHANGED <<sysVars, auxVars, cacheVars, cbVars, mMap, mapMutex, mutex, rtuHandler, crashed, started, opCalls, transLog>>

\* an update that disables the device on every error
NewOperatingState_AnyError(e, device) ==
    IF e # Ok
    THEN IF device.opState = Enabled THEN Disabled ELSE ""
    ELSE IF device.opState = Disabled THEN Enabled ELSE ""

\* an update that disables on a timeout but never enables again
NewOperatingState_NoRecover(e, device) ==
    IF IsTimeout(e) /\ device.opState = Enabled THEN Disabled ELSE ""

\* updateOperatingState: the state the device is to get, "" for no change
NewOperatingState(e, device) ==
    IF e # Ok
    THEN IF IsTimeout(e) /\ device.opState = Enabled THEN Disabled ELSE ""
    ELSE IF device.opState = Disabled THEN Enabled ELSE ""

\* updateOperatingState: cache.Devices().ForName(deviceName) and the decision
OpRead(c) ==
    /\ ~crashed
    /\ call[c].pc = "opRead"
    /\ LET device == DevByName(call[c].name)
           ns == NewOperatingState(call[c].outs[Len(call[c].outs)], device)
       IN call' = [call EXCEPT ![c] =
                     IF ns = "" THEN AfterTransaction(call[c])
                     ELSE [call[c] EXCEPT !.pc = "opWrite", !.copy = device,
                                          !.newState = ns]]
    /\ UNCHANGED <<sysVars, auxVars, cacheVars, cbVars, mMap, mapMutex, mutex, rtuHandler, crashed, started, opCalls, transLog>>

\* updateOperatingState: cache.Devices().Update(device) and
\* go UpdateOpStateByName(device.Name, state)
OpWrite(c) ==
    /\ ~crashed
    /\ call[c].pc = "opWrite"
    /\ LET device == [call[c].copy EXCEPT !.opState = call[c].newState]
       IN /\ devices' = IF DevUpdateOk(device) THEN DevUpdate(device) ELSE devices
          /\ opCalls' = Append(opCalls, <<device.name, device.opState>>)
          /\ transLog' = IF DevUpdateOk(device)
                            /\ devices[device.id].opState # device.opState
                         THEN Append(transLog, <<device.name, device.opState>>)
                         ELSE transLog
    /\ call' = [call EXCEPT ![c] =
                  AfterTransaction([call[c] EXCEPT !.copy = ZeroDevice,
                                                   !.newState = ""])]
    /\ UNCHANGED <<sysVars, auxVars, profiles, sched, cbVars, mMap, mapMutex, mutex, rtuHandler, crashed, started>>

\* releaseClient: close the handler, modbusDevice.mutex.Unlock()
Release(c) ==
    /\ ~crashed
    /\ call[c].pc = "release"
    /\ Unlock(call[c].handle)
    /\ call' = [call EXCEPT ![c] = CallDone(call[c], call[c].outs[Len(call[c].outs)])]
    /\ UNCHANGED <<sysVars, auxVars, cacheVars, cbVars, mMap, mapMutex, rtuHandler, started, opCalls, transLog>>

\* the command or scan has returned to its caller; the goroutine ends
CallReturn(c) ==
    /\ call[c].pc = "done"
    /\ call' = [call EXCEPT ![c] = IdleCall]
    /\ UNCHANGED <<sysVars, auxVars, cacheVars, cbVars, mMap, mapMutex, mutex, rtuHandler, crashed, started, opCalls, transLog>>

CallStep(c) ==
    \/ GetClient(c)
    \/ MapLookup(c)
    \/ Lock(c)
    \/ \E ok \in BOOLEAN : Connect(c, ok)
    \/ \E out \in Outcomes : Transaction(c, out)
    \/ OpRead(c)
    \/ OpWrite(c)
    \/ Release(c)
    \/ CallReturn(c)

\* ---------------------------------------------------------------- bootstrap
\* the dependencies checkDependencyServices checks, in its order
Deps == {"Data", "Metadata"}
\* the client settings validateClientConfig reads: TRUE when configured
Configs == [mdHost : BOOLEAN, mdPort : BOOLEAN, cdHost : BOOLEAN, cdPort : BOOLEAN]

IdleDep == [pc |-> "idle", pings |-> <<>>, err |-> ""]
IdleBoot == [pc |-> "idle", cfg |-> [mdHost |-> TRUE, mdPort |-> TRUE,
                                     cdHost |-> TRUE, cdPort |-> TRUE],
             retries |-> 0, dep |-> [s \in Deps |-> IdleDep], errs |-> 0,
             err |-> "", phases |-> <<>>, coreDs |-> {}, corePws |-> {},
             seedErr |-> FALSE]
\* a service whose bootstrap is over
BootServing == [IdleBoot EXCEPT !.pc = "serving"]

\* validateClientConfig: the first setting found missing, "" when none is
validateClientConfig_MetadataOnly(cfg) ==
    IF ~cfg.mdHost THEN "Host setting for Core Metadata client not configured"
    ELSE IF ~cfg.mdPort THEN "Port setting for Core Metadata client not configured"
    ELSE ""

validateClientConfig(cfg) ==
    IF ~cfg.mdHost THEN "Host setting for Core Metadata client not configured"
    ELSE IF ~cfg.mdPort THEN "Port setting for Core Metadata client not configured"
    ELSE IF ~cfg.cdHost THEN "Host setting for Core Data client not configured"
    ELSE IF ~cfg.cdPort THEN "Port setting for Core Ddata client not configured"
    ELSE ""

TimeOutError(s) == "service dependency " \o s \o " checking time out"

\* InitDependencyClients up to the start of the two dependency checkers:
\* validateClientConfig, initializeLoggingClient, the go statements of
\* checkDependencyServices; n is Service.ConnectRetries
InitDependencyClients(cfg, n) ==
    /\ boot.pc = "idle"
    /\ LET e == validateClientConfig(cfg)
           b == [boot EXCEPT !.cfg = cfg, !.retries = n]
       IN boot' = IF e # ""
                  THEN [b EXCEPT !.pc = "failed", !.err = e,
                                 !.phases = <<"validate">>]
                  ELSE [b EXCEPT !.pc = "checking",
                                 !.phases = <<"validate", "logging", "ping">>,
                                 !.dep = [s \in Deps |->
                                            [IdleDep EXCEPT !.pc = "ping"]]]
    /\ UNCHANGED <<cacheVars, cbVars, busVars, cron, auxVars>>

\* the loop condition of checkServiceAvailable
MorePings_Inclusive(d, n) == Len(d.pings) <= n

MorePings(d, n) == Len(d.pings) < n

\* checkServiceAvailable: one turn of the loop, a ping that answers or not
checkServiceAvailableByPing(s, ok) ==
    /\ boot.pc = "checking"
    /\ boot.dep[s].pc = "ping"
    /\ MorePings(boot.dep[s], boot.retries)
    /\ boot' = [boot EXCEPT !.dep[s].pings = Append(@, ok),
                            !.dep[s].pc = IF ok THEN "done" ELSE "ping"]
    /\ UNCHANGED <<cacheVars, cbVars, busVars, cron, auxVars>>

\* an error channel without a buffer
dependencyCount_Unbuffered == Cardinality({})

\* checkingErrs := make(chan<- error, dependencyCount): the errors the
\* channel holds before a send blocks
dependencyCount == Cardinality(Deps)

\* checkServiceAvailable: the loop is over without an answer; the checker
\* sends the error on checkingErrs, which needs room in the channel because
\* nothing receives from it, and ends
checkServiceAvailableTimeOut(s) ==
    /\ boot.pc = "checking"
    /\ boot.dep[s].pc = "ping"
    /\ ~MorePings(boot.dep[s], boot.retries)
    /\ boot.errs < dependencyCount
    /\ boot' = [boot EXCEPT !.dep[s].pc = "done",
                            !.dep[s].err = TimeOutError(s),
                            !.errs = @ + 1]
    /\ UNCHANGED <<cacheVars, cbVars, busVars, cron, auxVars>>

\* what checkDependencyServices returns for the errors on the channel
DependencyResult(b) ==
    IF b.errs > 0 THEN "checking required dependencied services failed " ELSE ""

\* checkDependencyServices after waitGroup.Wait(), and the rest of
\* InitDependencyClients: initializeClients
checkDependencyServices ==
    /\ boot.pc = "checking"
    /\ \A s \in Deps : boot.dep[s].pc = "done"
    /\ boot' = IF DependencyResult(boot) # ""
               THEN [boot EXCEPT !.pc = "failed", !.err = DependencyResult(boot)]
               ELSE [boot EXCEPT !.pc = "clients",
                                 !.phases = Append(@, "clients")]
    /\ UNCHANGED <<cacheVars, cbVars, busVars, cron, auxVars>>

\* InitCache: Core answers the two fetches or fails them; a failed fetch is
\* logged and replaced by the empty list
InitCache(dsOk, pwsOk, seed) ==
    /\ boot.pc = "clients"
    /\ LET ds == IF dsOk THEN seed[1] ELSE {}
           pws == IF pwsOk THEN seed[2] ELSE {}
       IN /\ devices' = InitCacheDevices(ds)
          /\ profiles' = InitCacheProfiles(ds, pws)
          /\ boot' = [boot EXCEPT !.pc = "seeded", !.coreDs = ds,
                                  !.corePws = pws,
                                  !.seedErr = ~dsOk \/ ~pwsOk,
                                  !.phases = Append(@, "seed")]
    /\ UNCHANGED <<sched, cbVars, busVars, cron, auxVars>>

\* the bootstrap after the cache seed: the AutoEvents of the cached devices
\* are started
StartAutoEvents ==
    /\ boot.pc = "seeded"
    /\ sched' = StartAll(devices)
    /\ boot' = [boot EXCEPT !.pc = "scheduled", !.phases = Append(@, "scheduler")]
    /\ UNCHANGED <<devices, profiles, cbVars, busVars, cron, auxVars>>

\* the bootstrap binds the HTTP surface; the service is up
BindHttp ==
    /\ boot.pc = "scheduled"
    /\ boot' = [boot EXCEPT !.pc = "serving", !.phases = Append(@, "http")]
    /\ UNCHANGED <<cacheVars, cbVars, busVars, cron, auxVars>>

\* ---------------------------------------------------------------- scheduler
\* names of the schedule events, goroutines that call the scheduler
SchedNames == {"e1", "e2"}
SchedCallers == {"s1", "s2"}

IdleSched == [pc |-> "idle", op |-> "", name |-> "", todo |-> {}, entry |-> 0,
              res |-> ""]
\* cr, entryMap (0: no entry), the cron.EntryID the engine hands out next
IdleCron == [started |-> FALSE, running |-> FALSE, stopped |-> FALSE,
             entryMap |-> [n \in SchedNames |-> 0], engine |-> {}, nextId |-> 1,
             calls |-> 0, proc |-> [p \in SchedCallers |-> IdleSched]]

\* StartScheduler: the engine is created and started once; the schedule
\* events of the cache, evts, are then added one by one
StartScheduler(p, evts) ==
    /\ ~cron.started
    /\ cron.proc[p].pc = "idle"
    /\ cron' = [cron EXCEPT
          !.started = TRUE, !.running = TRUE,
          !.proc[p] = IF evts = {}
                      THEN [IdleSched EXCEPT !.pc = "done", !.op = "start"]
                      ELSE [IdleSched EXCEPT !.pc = "add_stop", !.op = "start",
                                             !.todo = evts]]
    /\ UNCHANGED <<cacheVars, cbVars, busVars, boot, auxVars>>

\* StartScheduler has returned: the service takes scheduler calls
SchedReady == cron.started /\ \A q \in SchedCallers : cron.proc[q].op # "start"

\* a caller of AddScheduleEvent(schEvt)
AddCall(p, name) ==
    /\ SchedReady
    /\ cron.proc[p].pc = "idle"
    /\ cron.calls < MaxSchedOps
    /\ cron' = [cron EXCEPT !.calls = @ + 1,
                            !.proc[p] = [IdleSched EXCEPT !.pc = "add_stop",
                                                          !.op = "add",
                                                          !.todo = {name}]]
    /\ UNCHANGED <<cacheVars, cbVars, busVars, boot, auxVars>>

\* AddScheduleEvent: cr.Stop() (the deferred cr.Start() is AddDefer)
AddStop(p) ==
    /\ cron.proc[p].pc = "add_stop"
    /\ \E n \in cron.proc[p].todo :
          cron' = [cron EXCEPT !.running = FALSE,
                               !.proc[p].pc = "add_check",
                               !.proc[p].name = n,
                               !.proc[p].todo = @ \ {n}]
    /\ UNCHANGED <<cacheVars, cbVars, busVars, boot, auxVars>>

\* AddScheduleEvent: the entryMap lookup, the schedule of the event in the
\* cache and its cron specification (inputOk: both are found and valid)
AddCheck(p, inputOk) ==
    /\ cron.proc[p].pc = "add_check"
    /\ cron' = [cron EXCEPT !.proc[p] =
          IF cron.entryMap[cron.proc[p].name] # 0
          THEN [@ EXCEPT !.pc = "add_defer", !.res = "already exists"]
          ELSE IF ~inputOk
          THEN [@ EXCEPT !.pc = "add_defer", !.res = "bad schedule"]
          ELSE [@ EXCEPT !.pc = "add_job"]]
    /\ UNCHANGED <<cacheVars, cbVars, busVars, boot, auxVars>>

\* AddScheduleEvent: cr.AddJob(spec, &exec)
AddJob(p, ok) ==
    /\ cron.proc[p].pc = "add_job"
    /\ cron' = IF ok
               THEN [cron EXCEPT !.engine = @ \cup {cron.nextId},
                                 !.nextId = @ + 1,
                                 !.proc[p].entry = cron.nextId,
                                 !.proc[p].pc = "add_map"]
               ELSE [cron EXCEPT !.proc[p].pc = "add_defer",
                                 !.proc[p].res = "bad job"]
    /\ UNCHANGED <<cacheVars, cbVars, busVars, boot, auxVars>>

\* AddScheduleEvent: entryMap[schEvt.Name] = entry
AddMap(p) ==
    /\ cron.proc[p].pc = "add_map"
    /\ cron' = [cron EXCEPT !.entryMap[cron.proc[p].name] = cron.proc[p].entry,
                            !.proc[p].pc = "add_defer", !.proc[p].res = "ok"]
    /\ UNCHANGED <<cacheVars, cbVars, busVars, boot, auxVars>>

\* AddScheduleEvent returns: the deferred cr.Start(); StartScheduler goes on
\* with its next event
AddDefer(p) ==
    /\ cron.proc[p].pc = "add_defer"
    /\ cron' = [cron EXCEPT !.running = TRUE,
                            !.proc[p].pc = IF cron.proc[p].todo = {}
                                           THEN "done" ELSE "add_stop"]
    /\ UNCHANGED <<cacheVars, cbVars, busVars, boot, auxVars>>

\* RemoveScheduleEvent(name) up to cr.Remove: the entryMap lookup
RemoveScheduleEvent(p, name) ==
    /\ SchedReady
    /\ cron.proc[p].pc = "idle"
    /\ cron.calls < MaxSchedOps
    /\ cron' = [cron EXCEPT !.calls = @ + 1, !.proc[p] =
          IF cron.entryMap[name] = 0
          THEN [IdleSched EXCEPT !.pc = "done", !.op = "remove", !.name = name,
                                 !.res = "does not exist"]
          ELSE [IdleSched EXCEPT !.pc = "rem_remove", !.op = "remove",
                                 !.name = name, !.entry = cron.entryMap[name]]]
    /\ UNCHANGED <<cacheVars, cbVars, busVars, boot, auxVars>>

\* RemoveScheduleEvent: cr.Remove(entry)
RemRemove(p) ==
    /\ cron.proc[p].pc = "rem_remove"
    /\ cron' = [cron EXCEPT !.engine = @ \ {cron.proc[p].entry},
                            !.proc[p].pc = "rem_delete"]
    /\ UNCHANGED <<cacheVars, cbVars, busVars, boot, auxVars>>

\* RemoveScheduleEvent: delete(entryMap, name)
RemDelete(p) ==
    /\ cron.proc[p].pc = "rem_delete"
    /\ cron' = [cron EXCEPT !.entryMap[cron.proc[p].name] = 0,
                            !.proc[p].pc = "done", !.proc[p].res = "ok"]
    /\ UNCHANGED <<cacheVars, cbVars, busVars, boot, auxVars>>

\* StopScheduler: cr.Stop()
StopScheduler(p) ==
    /\ SchedReady
    /\ cron.proc[p].pc = "idle"
    /\ ~cron.stopped
    /\ cron' = [cron EXCEPT !.running = FALSE, !.stopped = TRUE]
    /\ UNCHANGED <<cacheVars, cbVars, busVars, boot, auxVars>>

\* the scheduler call has returned to its caller
SchedReturn(p) ==
    /\ cron.proc[p].pc = "done"
    /\ cron' = [cron EXCEPT !.proc[p] = IdleSched]
    /\ UNCHANGED <<cacheVars, cbVars, busVars, boot, auxVars>>

\* ---------------------------------------------------------------- payloads
\* A []byte is a sequence of 0..255 and a string the sequence of its bytes.
\* An int64, a uint64 and a float64 are the 8 bytes binary.BigEndian gives
\* them (two's complement, IEEE-754): no number of the model is wider than
\* 24 bits. The definitions up to FloatParts are arithmetic on these strings.
Zeros(n) == [i \in 1..n |-> 0]
\* b[k:]
SliceFrom(b, k) == SubSeq(b, k + 1, Len(b))
\* the number a string of digits writes in a base
RECURSIVE BaseVal(_, _)
BaseVal(digits, base) ==
    IF digits = <<>> THEN 0
    ELSE base * BaseVal(SubSeq(digits, 1, Len(digits) - 1), base)
         + digits[Len(digits)]
\* the bits of a byte string, most significant first, and back
BitsOf(b) ==
    [i \in 1..8 * Len(b) |-> (b[(i - 1) \div 8 + 1] \div 2^(7 - ((i - 1) % 8))) % 2]
BitsOfNat(n, w) == [i \in 1..w |-> (n \div 2^(w - i)) % 2]
BytesOf(bits) ==
    [k \in 1..Len(bits) \div 8 |-> BaseVal(SubSeq(bits, 8 * k - 7, 8 * k), 2)]
IsZero(bits) == \A i \in 1..Len(bits) : bits[i] = 0
FirstOne(bits) == CHOOSE i \in 1..Len(bits) :
                      bits[i] = 1 /\ \A j \in 1..(i - 1) : bits[j] = 0
\* -x and x + 1 on w bits, modulo 2^w
Neg(bits) ==
    IF IsZero(bits) THEN bits
    ELSE LET k == CHOOSE i \in 1..Len(bits) :
                      bits[i] = 1 /\ \A j \in (i + 1)..Len(bits) : bits[j] = 0
         IN [i \in 1..Len(bits) |-> IF i < k THEN 1 - bits[i] ELSE bits[i]]
Inc(bits) ==
    IF \A i \in 1..Len(bits) : bits[i] = 1 THEN Zeros(Len(bits))
    ELSE LET k == CHOOSE i \in 1..Len(bits) :
                      bits[i] = 0 /\ \A j \in (i + 1)..Len(bits) : bits[j] = 1
         IN [i \in 1..Len(bits) |-> IF i < k THEN bits[i] ELSE 1 - bits[i]]
\* IEEE-754 binary64: sign, biased exponent, 52 bits of mantissa, and the
\* integer part of |f| on 64 bits when |f| < 2^64
FloatParts(f) ==
    LET bits == BitsOf(f)
        exp == BaseVal(SubSeq(bits, 2, 12), 2)
        mant == SubSeq(bits, 13, 64)
    IN [sign |-> bits[1], exp |-> exp, mant |-> mant,
        int |-> IF exp = 0 \/ exp < 1023 \/ exp > 1086 THEN Zeros(64)
                ELSE Zeros(1086 - exp) \o
                     SubSeq(<<1>> \o mant \o Zeros(11), 1, exp - 1022)]

\* what a conversion of a float to an integer type yields when the integer
\* type cannot hold the value: Go leaves it to the implementation (amd64
\* gives the minimum, arm64 saturates, NaN gives the minimum or zero)
ImplDependent == {<<128, 0, 0, 0, 0, 0, 0, 0>>,
                  <<127, 255, 255, 255, 255, 255, 255, 255>>,
                  <<255, 255, 255, 255, 255, 255, 255, 255>>, Zeros(8)}
\* int64(f): truncation toward zero
FloatToInt64(f, impl) ==
    LET p == FloatParts(f)
    IN IF p.exp > 1086 THEN impl
       ELSE IF p.sign = 0
       THEN IF p.int[1] = 1 THEN impl ELSE BytesOf(p.int)
       ELSE IF p.int[1] = 1 /\ ~IsZero(SubSeq(p.int, 2, 64)) THEN impl
       ELSE BytesOf(Neg(p.int))
\* uint64(f)
FloatToUint64(f, impl) ==
    LET p == FloatParts(f)
    IN IF p.exp > 1086 THEN impl
       ELSE IF p.sign = 1 /\ ~IsZero(p.int) THEN impl
       ELSE BytesOf(p.int)
\* float64(v) of an int64 v: exact up to 53 bits, else round to nearest even
Int64ToFloat(v) ==
    LET bits == BitsOf(v)
        mag == IF bits[1] = 1 THEN Neg(bits) ELSE bits
        E == 64 - FirstOne(mag)
        frac == SubSeq(mag, FirstOne(mag) + 1, 64)
        keep == SubSeq(frac, 1, 52)
        rest == SubSeq(frac, 53, E)
        up == /\ rest[1] = 1
              /\ (keep[52] = 1 \/ ~IsZero(SubSeq(rest, 2, Len(rest))))
        carry == up /\ IsZero(Inc(keep))
        mant == IF E <= 52 THEN frac \o Zeros(52 - E)
                ELSE IF up THEN Inc(keep) ELSE keep
        exp == IF E > 52 /\ carry THEN E + 1024 ELSE E + 1023
    IN IF IsZero(bits) THEN Zeros(8)
       ELSE BytesOf(<<bits[1]>> \o BitsOfNat(exp, 11) \o mant)
\* float64(math.Float32frombits(u)) of the 4 bytes u: the same number
Float32ToFloat(u) ==
    LET bits == BitsOf(u)
        e == BaseVal(SubSeq(bits, 2, 9), 2)
        m == SubSeq(bits, 10, 32)
        k == FirstOne(m)
    IN BytesOf(<<bits[1]>> \o
          (IF e = 255
           THEN BitsOfNat(2047, 11) \o
                (IF IsZero(m) THEN m ELSE <<1>> \o SubSeq(m, 2, 23)) \o Zeros(29)
           ELSE IF e = 0 /\ IsZero(m) THEN Zeros(63)
           ELSE IF e = 0
           THEN BitsOfNat(897 - k, 11) \o SubSeq(m, k + 1, 23) \o Zeros(29 + k)
           ELSE BitsOfNat(e + 896, 11) \o m \o Zeros(29)))

\* strconv.Atoi of a string of ASCII codes: an optional sign and digits
Atoi(s) ==
    LET digits == IF Len(s) > 0 /\ s[1] \in {43, 45} THEN SliceFrom(s, 1) ELSE s
        val == BaseVal([i \in 1..Len(digits) |-> digits[i] - 48], 10)
    IN IF Len(digits) > 0 /\ \A i \in 1..Len(digits) : digits[i] \in 48..57
       THEN [ok |-> TRUE, val |-> IF s[1] = 45 THEN 0 - val ELSE val]
       ELSE [ok |-> FALSE, val |-> 0]

\* swapBitDataBytes: newDataBytes starts as zeros; the word swap of 4 and of
\* 8 bytes assigns every byte again
swapBitDataBytes(dataBytes, isByteSwap, isWordSwap) ==
    LET n == Len(dataBytes)
        newDataBytes == Zeros(n)
        byteSwapped ==
            IF isByteSwap
            THEN [i \in 1..n |-> IF i % 2 = 1 THEN dataBytes[i + 1]
                                              ELSE dataBytes[i - 1]]
            ELSE newDataBytes
        wordSwapped ==
            IF ~isWordSwap \/ n = 2 THEN byteSwapped
            ELSE IF n = 4
            THEN <<dataBytes[3], dataBytes[4], dataBytes[1], dataBytes[2]>>
            ELSE <<dataBytes[7], dataBytes[8], dataBytes[5], dataBytes[6],
                   dataBytes[3], dataBytes[4], dataBytes[1], dataBytes[2]>>
    IN IF ~isByteSwap /\ ~isWordSwap THEN dataBytes
       ELSE IF n \in {2, 4, 8} THEN wordSwapped
       ELSE dataBytes

\* ds_models.CommandValue: the type tag, the encoded NumericValue (8 bytes for
\* Int64 and Float64, 1 byte for Bool) and the string of a String value
EmptyValue == [Type |-> "", NumericValue |-> <<>>, stringValue |-> <<>>]
NewBoolValue(v) ==
    [Type |-> "Bool", NumericValue |-> <<IF v THEN 1 ELSE 0>>, stringValue |-> <<>>]
NewStringValue(s) == [Type |-> "String", NumericValue |-> <<>>, stringValue |-> s]
NewInt64Value(v) == [Type |-> "Int64", NumericValue |-> v, stringValue |-> <<>>]
NewFloat64Value(v) == [Type |-> "Float64", NumericValue |-> v, stringValue |-> <<>>]

\* modbusReadConfig and its zero value
ZeroConfig == [function |-> "", address |-> 0, size |-> 0, vType |-> "",
               isByteSwap |-> FALSE, isWordSwap |-> FALSE, resultType |-> "",
               precision |-> 0]
\* the number of registers of a value type (STRING and ARRAY: attribute Length)
SizeOf(vType) ==
    IF vType \in {"UINT8", "INT8", "UINT16", "INT16", "FLOAT16", "BOOL"} THEN 1
    ELSE IF vType \in {"UINT32", "INT32", "FLOAT32"} THEN 2
    ELSE IF vType \in {"UINT64", "INT64", "FLOAT64"} THEN 4
    ELSE 0
maxPrecision == 6

\* getReadValues: panic is a failed type assertion on a missing attribute; the
\* second swap attribute is assigned to isByteSwap, as the first is; an error
\* of the Precision parse stays in the named result err
getReadValues(dr) ==
    LET A == dr.Attributes
        vType == A["ValueType"]
        add == Atoi(A["StartingAddress"])
        reg == Atoi(A["Length"])
        prec == Atoi(dr.Precision)
        Err(e) == [panic |-> FALSE, err |-> e, readConfig |-> ZeroConfig]
        Panic == [panic |-> TRUE, err |-> "", readConfig |-> ZeroConfig]
        cfg == [function |-> A["PrimaryTable"],
                address |-> add.val % 65536,
                size |-> IF vType \in {"STRING", "ARRAY"} THEN reg.val % 65536
                         ELSE SizeOf(vType),
                vType |-> vType,
                isByteSwap |-> A["IsWordSwap"] \in {"true", "True", "TRUE"},
                isWordSwap |-> FALSE,
                resultType |-> dr.Type,
                precision |-> IF dr.Type # "Float" THEN 0
                              ELSE IF dr.Precision # <<>> /\ prec.ok THEN prec.val
                              ELSE maxPrecision]
    IN IF Cardinality(DOMAIN A) < 3 THEN Err("Invalid number attributes")
       ELSE IF "PrimaryTable" \notin DOMAIN A THEN Panic
       ELSE IF A["PrimaryTable"] \notin {"HoldingRegister", "InputRegister",
                                         "Coil", "DiscreteInput"}
       THEN Err("Invalid attribute")
       ELSE IF "StartingAddress" \notin DOMAIN A THEN Err("Invalid attribute format")
       ELSE IF ~add.ok THEN Err("Invalid address value")
       ELSE IF "ValueType" \notin DOMAIN A THEN Panic
       ELSE IF vType \in {"STRING", "ARRAY"} /\ "Length" \notin DOMAIN A
       THEN Err("Invalid attribute format")
       ELSE IF vType \in {"STRING", "ARRAY"} /\ ~reg.ok
       THEN Err("Invalid Length value")
       ELSE IF vType \notin {"STRING", "ARRAY"} /\ SizeOf(vType) = 0
       THEN Err("Invalid ValueType")
       ELSE IF {"IsByteSwap", "IsWordSwap"} \cap DOMAIN A # {"IsByteSwap", "IsWordSwap"}
       THEN Panic
       ELSE IF dr.Type \notin {"Bool", "String", "Integer", "Float", "Json"}
       THEN Err("Invalid resultType")
       ELSE IF dr.Type = "Float" /\ dr.Precision # <<>> /\ ~prec.ok
       THEN [panic |-> FALSE, err |-> "Invalid precision", readConfig |-> cfg]
       ELSE [panic |-> FALSE, err |-> "", readConfig |-> cfg]

\* the decoding with the least significant byte first
DecodeInt_LittleEndian(width, swapped) ==
    Zeros(8 - width) \o [i \in 1..width |-> swapped[width + 1 - i]]
\* int64(binary.BigEndian.Uint16 / Uint32 / Uint64 (swapped)): the first
\* width bytes, widened without a sign
DecodeInt(width, swapped) == Zeros(8 - width) \o SubSeq(swapped, 1, width)

\* setResult: panic is binary.BigEndian on a payload shorter than the value
\* type; impl is the outcome of a float conversion Go leaves open.
\* math.Round(valueFloat * 10^precision) / 10^precision: the product, the
\* rounding and the quotient are exact, and the result is valueFloat, when
\* valueFloat is zero or has at least 3 * precision trailing zero bits in its
\* 53 bit significand, no more fraction bits than precision, and precision is
\* in 0..maxPrecision; the rounding of any other number stays unevaluated
\* (the mark -1, the precision and the number).
setResult(readConf, dat, impl) ==
    LET vType == readConf.vType
        swapped == swapBitDataBytes(dat, readConf.isByteSwap, readConf.isWordSwap)
        difType == IF vType \in {"UINT16", "INT16", "UINT32", "INT32", "UINT64",
                                 "INT64"} THEN "Int"
                   ELSE IF vType \in {"FLOAT32", "FLOAT64"} THEN "Float"
                   ELSE IF vType = "BOOL" THEN "Bool"
                   ELSE IF vType \in {"STRING", "ARRAY"} THEN "String"
                   ELSE "difType"
        width == 2 * SizeOf(vType)
        valueInt == DecodeInt(width, swapped)
        valueFloat == IF vType = "FLOAT32" THEN Float32ToFloat(SubSeq(dat, 1, 4))
                      ELSE SubSeq(dat, 1, 8)
        valueBool == \E i \in 1..Len(dat) : dat[i] # 0
        HexChar(d) == IF d < 10 THEN 48 + d ELSE 87 + d
        valueString ==
            IF vType = "STRING" THEN SelectSeq(dat, LAMBDA b : b >= 32 /\ b <= 127)
            ELSE IF vType = "ARRAY"
            THEN [i \in 1..2 * Len(dat) |->
                     HexChar(IF i % 2 = 1 THEN dat[(i + 1) \div 2] \div 16
                                          ELSE dat[i \div 2] % 16)]
            ELSE <<>>
        p == FloatParts(valueFloat)
        sig == <<1>> \o p.mant
        tz == 53 - (CHOOSE i \in 1..53 :
                       sig[i] = 1 /\ \A j \in (i + 1)..53 : sig[j] = 0)
        exact == /\ readConf.precision \in 0..maxPrecision
                 /\ \/ p.exp = 0 /\ IsZero(p.mant)
                    \/ /\ p.exp \in 1..2046
                       /\ 3 * readConf.precision <= tz
                       /\ 1075 - tz - p.exp <= readConf.precision
        rounded == IF exact THEN valueFloat
                   ELSE <<-1, readConf.precision>> \o valueFloat
        rt == readConf.resultType
        result ==
            IF rt = "Bool" /\ difType = "Bool" THEN NewBoolValue(valueBool)
            ELSE IF rt = "Bool" /\ difType = "String" THEN NewStringValue(valueString)
            ELSE IF rt = "String" THEN NewStringValue(valueString)
            ELSE IF rt = "Integer" /\ difType = "Float"
            THEN NewInt64Value(FloatToInt64(valueFloat, impl))
            ELSE IF rt = "Integer" /\ difType = "Int" THEN NewInt64Value(valueInt)
            ELSE IF rt = "Float" /\ difType = "Float" THEN NewFloat64Value(rounded)
            ELSE IF rt = "Float" /\ difType = "Int"
            THEN NewFloat64Value(Int64ToFloat(valueInt))
            ELSE EmptyValue
    IN IF difType \in {"Int", "Float"} /\ Len(dat) < width
       THEN [panic |-> TRUE, err |-> "", value |-> EmptyValue]
       ELSE IF difType = "difType"
       THEN [panic |-> FALSE, err |-> "none supported value type",
             value |-> EmptyValue]
       ELSE [panic |-> FALSE, err |-> "", value |-> result]

\* setWriteValue: isByteSwap and isWordSwap are locals that stay false; panic
\* is a slice of a NumericValue that is too short, an index past the decoded
\* hex string and binary.BigEndian.PutUint64 / PutUint32 on the nil data.
\* StringValue() is the string of a String value, else empty with an error;
\* hex.DecodeString gives the bytes decoded before the first error.
setWriteValue(param, writeConf, impl) ==
    LET vType == writeConf.vType
        rt == writeConf.resultType
        size == writeConf.size
        nv == param.NumericValue
        myString == IF param.Type = "String" THEN param.stringValue ELSE <<>>
        FromHexChar(c) == IF c <= 57 THEN c - 48 ELSE IF c >= 97 THEN c - 87
                          ELSE c - 55
        good == {k \in 0..(Len(myString) \div 2) :
                    \A i \in 1..2 * k :
                        myString[i] \in (48..57) \cup (97..102) \cup (65..70)}
        decoded == [k \in 1..(CHOOSE k \in good : \A j \in good : j <= k) |->
                       16 * FromHexChar(myString[2 * k - 1])
                       + FromHexChar(myString[2 * k])]
        Data(d) == [panic |-> FALSE, data |-> d]
        Panic == [panic |-> TRUE, data |-> <<>>]
        Slice(v, k) ==
            IF Len(v) < k THEN Panic
            ELSE Data(swapBitDataBytes(SliceFrom(v, k), FALSE, FALSE))
        Numeric(v) ==
            IF vType \in {"UINT8", "INT8"}
            THEN IF Len(v) < 7 THEN Panic ELSE Data(SliceFrom(v, 7))
            ELSE IF vType \in {"UINT16", "INT16"} THEN Slice(v, 6)
            ELSE IF vType \in {"UINT32", "INT32"} THEN Slice(v, 4)
            ELSE IF vType \in {"UINT64", "INT64"} THEN Slice(v, 0)
            ELSE Data(<<>>)
        Registers(s) == [i \in 1..2 * size |-> IF i % 2 = 1 THEN 0 ELSE s[i \div 2]]
    IN IF rt = "String"
       THEN IF vType = "STRING"
            THEN IF Len(myString) = size THEN Data(Registers(myString))
                 ELSE Data(myString)
            ELSE IF vType = "ARRAY"
            THEN IF Len(myString) = (size * 2) % 65536
                 THEN IF Len(decoded) < size THEN Panic
                      ELSE Data(Registers(decoded))
                 ELSE Data(decoded)
            ELSE Data(<<>>)
       ELSE IF rt = "Bool" THEN Data(nv)
       ELSE IF rt = "Integer"
       THEN IF vType = "FLOAT32" THEN Slice(nv, 4)
            ELSE IF vType = "FLOAT64" THEN Slice(nv, 0)
            ELSE Numeric(nv)
       ELSE IF rt = "Float"
       THEN IF vType \in {"FLOAT32", "FLOAT64"} \/ Len(nv) < 8 THEN Panic
            ELSE Numeric(FloatToUint64(SubSeq(nv, 1, 8), impl) \o SliceFrom(nv, 8))
       ELSE Data(<<>>)

\* ---------------------------------------------------------------- conversions
\* dr is a models.DeviceResource: the attributes of the resource,
\* Properties.Value.Type and Properties.Value.Precision
IdleConv == [pc |-> "idle",
             dr |-> [Attributes |-> <<>>, Type |-> "", Precision |-> <<>>],
             dat |-> <<>>, readConfig |-> ZeroConfig, readConf |-> ZeroConfig,
             err |-> "", swapped |-> <<>>, value |-> EmptyValue, data |-> <<>>,
             reqs |-> <<>>, res |-> <<>>, reads |-> 0]

\* the resources of a profile: every value type, result type and setting of
\* the swap attributes, and resources with a missing or malformed attribute.
\* <<52, 48, 48, 48, 49>> is the string "40001", <<50>> "2", <<48>> "0" and
\* <<120>> "x".
Resources ==
    LET Mk(vType, length, byteSwap, wordSwap, type, precision) ==
            [Attributes |->
                [k \in {"PrimaryTable", "StartingAddress", "ValueType",
                        "Length", "IsByteSwap", "IsWordSwap"} |->
                    CASE k = "PrimaryTable" -> "HoldingRegister"
                      [] k = "StartingAddress" -> <<52, 48, 48, 48, 49>>
                      [] k = "ValueType" -> vType
                      [] k = "Length" -> length
                      [] k = "IsByteSwap" -> byteSwap
                      [] k = "IsWordSwap" -> wordSwap],
             Type |-> type, Precision |-> precision]
        base == Mk("UINT16", <<50>>, "false", "false", "Integer", <<>>)
        Without(dr, k) ==
            [dr EXCEPT !.Attributes =
                [a \in DOMAIN dr.Attributes \ {k} |-> dr.Attributes[a]]]
    IN {Mk(v, <<50>>, b, w, t, <<>>) :
           v \in {"UINT8", "INT8", "UINT16", "INT16", "FLOAT16", "BOOL",
                  "UINT32", "INT32", "FLOAT32", "UINT64", "INT64", "FLOAT64",
                  "STRING", "ARRAY", "BCD"},
           b \in {"true", "TRUE", "false"}, w \in {"true", "TRUE", "false"},
           t \in {"Bool", "String", "Integer", "Float", "Json", "Binary"}}
       \cup {Mk(v, <<50>>, "false", "false", "Float", p) :
                v \in {"FLOAT32", "FLOAT64", "INT16"},
                p \in {<<48>>, <<50>>, <<120>>}}
       \cup {Without(base, k) : k \in DOMAIN base.Attributes}
       \cup {[base EXCEPT !.Attributes = [k \in {"PrimaryTable"} |-> "Coil"]],
             [base EXCEPT !.Attributes["PrimaryTable"] = "Register"],
             [base EXCEPT !.Attributes["StartingAddress"] = <<120>>],
             [base EXCEPT !.Attributes["ValueType"] = "STRING",
                          !.Attributes["Length"] = <<120>>],
             Without([base EXCEPT !.Attributes["ValueType"] = "ARRAY"], "Length")}

\* the payloads a read returns for a resource: 2 bytes a register, and the
\* one byte of a coil
Payloads(dr) ==
    LET vals == {0, 1, 44, 128, 255}
        size == SizeOf(dr.Attributes["ValueType"])
    IN IF "ValueType" \notin DOMAIN dr.Attributes THEN {<<1, 44>>}
       ELSE IF dr.Attributes["ValueType"] \in {"STRING", "ARRAY"}
       THEN {<<0, 72, 0, 105>>, <<72, 105, 31, 200>>, <<10, 11, 127, 128>>}
       ELSE IF size = 2
       THEN {<<0, 0, 1, 44>>, <<1, 2, 3, 4>>, <<255, 255, 255, 255>>,
             <<128, 0, 0, 0>>, <<63, 128, 0, 0>>, <<192, 32, 0, 0>>,
             <<62, 153, 153, 154>>, <<127, 128, 0, 0>>}
       ELSE IF size = 4
       THEN {<<0, 0, 0, 0, 0, 0, 1, 44>>, <<1, 2, 3, 4, 5, 6, 7, 8>>,
             <<255, 255, 255, 255, 255, 255, 255, 255>>,
             <<128, 0, 0, 0, 0, 0, 0, 0>>, <<63, 240, 0, 0, 0, 0, 0, 0>>,
             <<192, 4, 0, 0, 0, 0, 0, 0>>,
             <<63, 185, 153, 153, 153, 153, 153, 154>>,
             <<67, 240, 0, 0, 0, 0, 0, 0>>}
       ELSE {<<a, b>> : a \in vals, b \in vals} \cup {<<1>>}

\* HandleReadCommands / HandleWriteCommands: readConfig, err = getReadValues(dr)
GetReadValues ==
    /\ conv.pc = "resource"
    /\ LET r == getReadValues(conv.dr)
       IN conv' = [conv EXCEPT !.pc = IF r.panic THEN "panic"
                                      ELSE IF r.err # "" THEN "failed"
                                      ELSE "config",
                               !.readConfig = r.readConfig,
                               !.readConf = r.readConfig,
                               !.err = r.err]
    /\ UNCHANGED <<sysVars, cacheVars, cbVars, busVars, disc, core>>

\* setResult(readConf, dat, creq) for the configuration of the resource
\* under the swap flags isByteSwap, isWordSwap
SetResult(isByteSwap, isWordSwap, impl) ==
    /\ conv.pc = "config"
    /\ LET readConf == [conv.readConfig EXCEPT !.isByteSwap = isByteSwap,
                                               !.isWordSwap = isWordSwap]
           r == setResult(readConf, conv.dat, impl)
       IN conv' = [conv EXCEPT !.pc = IF r.panic THEN "panic"
                                      ELSE IF r.err # "" THEN "failed"
                                      ELSE "value",
                               !.readConf = readConf,
                               !.value = r.value,
                               !.err = r.err]
    /\ UNCHANGED <<sysVars, cacheVars, cbVars, busVars, disc, core>>

\* setWriteValue(param, writeConf) for the value setResult gave and the same
\* configuration
SetWriteValue(impl) ==
    /\ conv.pc = "value"
    /\ LET r == setWriteValue(conv.value, conv.readConf, impl)
       IN conv' = [conv EXCEPT !.pc = IF r.panic THEN "panic" ELSE "written",
                               !.data = r.data]
    /\ UNCHANGED <<sysVars, cacheVars, cbVars, busVars, disc, core>>

\* HandleReadCommands after getClient: one turn of the loop over reqs, for
\* the request after the values in res; out is the result of readModbus
\* and dat its payload. res is the filled part of the slice the handler
\* returns, the rest of it is nil.
HandleReadCommands(out, dat, impl) ==
    /\ conv.pc = "requests"
    /\ LET i == Len(conv.res) + 1
           r == getReadValues(conv.reqs[i])
           v == setResult(r.readConfig, dat, impl)
           return(e) == [conv EXCEPT !.pc = "returned", !.err = e]
       IN /\ dat \in Payloads(conv.reqs[i])
          /\ conv' =
                IF r.panic THEN [conv EXCEPT !.pc = "panic"]
                ELSE IF r.err # "" THEN return(r.err)
                ELSE IF out # Ok
                THEN [return(out) EXCEPT !.reads = @ + 1]
                ELSE IF v.panic
                THEN [conv EXCEPT !.pc = "panic", !.reads = @ + 1]
                ELSE IF v.err # ""
                THEN [return(v.err) EXCEPT !.reads = @ + 1]
                ELSE [conv EXCEPT
                         !.pc = IF i = Len(conv.reqs) THEN "returned"
                                ELSE "requests",
                         !.res = Append(@, v.value),
                         !.reads = @ + 1]
    /\ UNCHANGED <<sysVars, cacheVars, cbVars, busVars, disc, core>>

\* getRTUConfig for a protocol map whose other properties are valid: the
\* UnitID property, strconv.Atoi, the range check and config.slaveID =
\* byte(unit)
getRTUConfig(protocol) ==
    LET unit == Atoi(protocol["UnitID"])
    IN IF "UnitID" \notin DOMAIN protocol
       THEN [err |-> "Unit ID not defined", slaveID |-> 0]
       ELSE IF ~unit.ok \/ unit.val = 0 \/ unit.val > 247
       THEN [err |-> "Invalid unit ID value", slaveID |-> 0]
       ELSE [err |-> "", slaveID |-> unit.val % 256]

\* getClient: config, err = getRTUConfig(modbusRTU) for the UnitID in dat
GetRTUConfig ==
    /\ conv.pc = "protocol"
    /\ LET r == getRTUConfig(IF conv.dat = <<>> THEN <<>>
                             ELSE [k \in {"UnitID"} |-> conv.dat])
       IN conv' = [conv EXCEPT !.pc = IF r.err # "" THEN "failed" ELSE "rtu",
                               !.err = r.err,
                               !.data = <<r.slaveID>>]
    /\ UNCHANGED <<sysVars, cacheVars, cbVars, busVars, disc, core>>

\* swapBitDataBytes(dat, isByteSwap, isWordSwap) on the payload
SwapBytes(isByteSwap, isWordSwap) ==
    /\ conv.pc = "resource"
    /\ conv' = [conv EXCEPT !.pc = "swapped",
                            !.readConf = [ZeroConfig EXCEPT
                                             !.isByteSwap = isByteSwap,
                                             !.isWordSwap = isWordSwap],
                            !.swapped = swapBitDataBytes(conv.dat, isByteSwap,
                                                         isWordSwap)]
    /\ UNCHANGED <<sysVars, cacheVars, cbVars, busVars, disc, core>>

\* ---------------------------------------------------------------- discovery
\* cache.Watchers(): the cached ProvisionWatchers, each with its name, its
\* profile and the Model identifiers its identifier pattern matches; posts are
\* the calls of provision.CreateDevice (the Device POSTs to Core), cand and
\* err the candidate and the result of the last discoverAssign
IdleDisc == [watchers |-> {}, posts |-> <<>>, calls |-> 0,
             cand |-> [Model |-> "", SerialNum |-> "", protocols |-> NoProto],
             err |-> ""]

\* discoverAssign(disc): nothing to do for a cached device name, an error
\* without a watcher named as the Model, else provision.CreateDevice with the
\* profile of that watcher (createOk: Core accepts the device)
discoverAssign(cand, createOk) ==
    LET nameDevice == cand.Model \o "_SN:" \o cand.SerialNum
        found == {w \in disc.watchers : w.name = cand.Model}
        pw == CHOOSE w \in found : TRUE
        deviceConf == [Name |-> nameDevice, Profile |-> pw.profile,
                       Protocols |-> cand.protocols]
        called == [disc EXCEPT !.calls = @ + 1, !.cand = cand, !.err = ""]
    IN /\ disc.calls < MaxDiscover
       /\ disc' = IF DevForName(nameDevice) THEN called
                  ELSE IF found = {}
                  THEN [called EXCEPT !.err = "ProvisionWatcher doesn't exist"]
                  ELSE [called EXCEPT
                           !.posts = Append(@, [conf |-> deviceConf,
                                                ok |-> createOk]),
                           !.err = IF createOk THEN ""
                                   ELSE "creating Device failed"]
       /\ UNCHANGED <<sysVars, cacheVars, cbVars, busVars, conv, core>>

\* ---------------------------------------------------------------- Core
\* no call has arrived, Core has the operating states it was given before
IdleCore == [arrived |-> {}, opState |-> [n \in DevNames |-> ""]]

\* go common.DeviceClient.UpdateOpStateByName(device.Name, state, ctx): the
\* goroutine of the i-th call runs and Core stores the state; nothing orders
\* the goroutines of different calls
UpdateOpStateByName(i) ==
    /\ i \in (1..Len(opCalls)) \ core.arrived
    /\ core' = [arrived |-> core.arrived \cup {i},
                opState |-> [core.opState EXCEPT
                                ![opCalls[i][1]] = opCalls[i][2]]]
    /\ UNCHANGED <<sysVars, cacheVars, cbVars, busVars, conv, disc>>

\* the state of bootstrap and scheduler while callbacks and commands run
InitSysServing ==
    /\ boot = BootServing
    /\ cron = [IdleCron EXCEPT !.started = TRUE, !.running = TRUE]
    /\ conv = IdleConv
    /\ disc = IdleDisc
    /\ core = IdleCore

\* ---------------------------------------------------------------- callbacks only
SeedD1 == MkDevice("d1", "pA", ProtoTCP, Enabled, Unlocked, MaxAuto)
SeedD2 == MkDevice("d2", "pA", ProtoTCP, Enabled, Locked, MaxAuto)
\* what Core answers at the cache seed: devices, profiles of the watchers
SeedsCb == {<<{}, {}>>, <<{SeedD1}, {"pB"}>>, <<{SeedD1, SeedD2}, {}>>}

InitBusIdle ==
    /\ mMap = [k \in Keys |-> 0]
    /\ mapMutex = ""
    /\ mutex = [h \in Keys \X (1..MaxCmds) |-> FALSE]
    /\ rtuHandler = [h \in Keys \X (1..MaxCmds) |-> 0]
    /\ crashed = FALSE
    /\ call = [c \in Callers |-> IdleCall]
    /\ started = 0
    /\ opCalls = <<>>
    /\ transLog = <<>>

InitCb ==
    /\ \E seed \in SeedsCb :
          /\ devices = InitCacheDevices(seed[1])
          /\ profiles = InitCacheProfiles(seed[1], seed[2])
          /\ sched = StartAll(InitCacheDevices(seed[1]))
    /\ cb = [w \in Workers |-> IdleCb]
    /\ cbStarted = 0
    /\ InitBusIdle
    /\ InitSysServing

CbStep(w) ==
    \/ PostProfForName(w)
    \/ PostProfAdd(w)
    \/ PostDevAdd(w)
    \/ PostRestart(w)
    \/ PutUpdate(w)
    \/ PutRestart(w)
    \/ DelForId(w)
    \/ DelStop(w)
    \/ DelRemove(w)
    \/ ProfUpdate(w)
    \/ CbReturn(w)

NextCb ==
    \E w \in Workers :
        \/ \E at \in ActionTypes, m \in Methods, id \in CbIds :
              \E f \in Fetches(at, id, MetaDevicesCb) :
                  CallbackHandler(w, at, m, id, f)
        \/ CbStep(w)

SpecCb == InitCb /\ [][NextCb]_vars

\* ---------------------------------------------------------------- bus
\* commands and discovery scans on a seeded cache: X on the serial bus,
\* Y on a TCP endpoint
BusD1 == MkDevice("d1", "pA", ProtoRTU(1), Enabled, Unlocked, 0)
BusD2 == MkDevice("d2", "pA", ProtoTCP, Enabled, Unlocked, 0)

InitCbIdle ==
    /\ cb = [w \in Workers |-> IdleCb]
    /\ cbStarted = 0

InitBus ==
    /\ devices = InitCacheDevices({BusD1, BusD2})
    /\ profiles = InitCacheProfiles({BusD1, BusD2}, {})
    /\ sched = StartAll(InitCacheDevices({BusD1, BusD2}))
    /\ InitCbIdle
    /\ InitBusIdle
    /\ InitSysServing

NextBus ==
    \E c \in Callers :
        \/ \E kind \in {"read", "write"}, name \in DevNames, n \in 1..MaxReqs :
              CommandStart(c, kind, name, n)
        \/ \E a \in ScanAddresses : ScanStart(c, a)
        \/ ScanReleaseErr(c)
        \/ CallStep(c)

SpecBus == InitBus /\ [][NextBus]_vars

\* ---------------------------------------------------------------- commands and PUT
\* commands on a seeded cache while Device PUT callbacks for X arrive
InitCmd == InitBus

NextCmd ==
    \/ \E c \in Callers :
          \/ \E kind \in {"read", "write"}, name \in {"X"}, n \in 1..MaxReqs :
                CommandStart(c, kind, name, n)
          \/ CallStep(c)
    \/ \E f \in Fetches("DEVICE", "d1", MetaDevicesCmd) :
          cbStarted < MaxPuts /\ CallbackHandler("w1", "DEVICE", "PUT", "d1", f)
    \/ PutUpdate("w1")
    \/ PutRestart("w1")
    \/ CbReturn("w1")

SpecCmd == InitCmd /\ [][NextCmd]_vars

\* ---------------------------------------------------------------- bootstrap
\* what Core may answer at the cache seed
SeedsBoot == SeedsCb \cup {<<{SeedD1}, {}>>}

InitBoot ==
    /\ devices = InitCacheDevices({})
    /\ profiles = {}
    /\ sched = [n \in DevNames |-> 0]
    /\ InitCbIdle
    /\ InitBusIdle
    /\ boot = IdleBoot
    /\ cron = IdleCron
    /\ conv = IdleConv
    /\ disc = IdleDisc
    /\ core = IdleCore

NextBoot ==
    \/ \E cfg \in Configs, n \in 0..MaxRetries : InitDependencyClients(cfg, n)
    \/ \E s \in Deps, ok \in BOOLEAN : checkServiceAvailableByPing(s, ok)
    \/ \E s \in Deps : checkServiceAvailableTimeOut(s)
    \/ checkDependencyServices
    \/ \E dsOk, pwsOk \in BOOLEAN, seed \in SeedsBoot : InitCache(dsOk, pwsOk, seed)
    \/ StartAutoEvents
    \/ BindHttp

SpecBoot == InitBoot /\ [][NextBoot]_vars

\* the goroutines of the two checkers are scheduled, a ping returns (it has
\* a dial timeout), and the goroutine of InitDependencyClients runs again
\* once waitGroup.Wait() can return
SpecBootLive ==
    /\ SpecBoot
    /\ \A s \in Deps :
          /\ WF_vars(\E ok \in BOOLEAN : checkServiceAvailableByPing(s, ok))
          /\ WF_vars(checkServiceAvailableTimeOut(s))
    /\ WF_vars(checkDependencyServices)

\* ---------------------------------------------------------------- scheduler calls
InitSched ==
    /\ devices = InitCacheDevices({})
    /\ profiles = {}
    /\ sched = [n \in DevNames |-> 0]
    /\ InitCbIdle
    /\ InitBusIdle
    /\ boot = BootServing
    /\ cron = IdleCron
    /\ conv = IdleConv
    /\ disc = IdleDisc
    /\ core = IdleCore

NextSched ==
    \E p \in SchedCallers :
        \/ \E evts \in SUBSET SchedNames : StartScheduler(p, evts)
        \/ \E n \in SchedNames : AddCall(p, n)
        \/ AddStop(p)
        \/ \E inputOk \in BOOLEAN : AddCheck(p, inputOk)
        \/ \E ok \in BOOLEAN : AddJob(p, ok)
        \/ AddMap(p)
        \/ AddDefer(p)
        \/ \E n \in SchedNames : RemoveScheduleEvent(p, n)
        \/ RemRemove(p)
        \/ RemDelete(p)
        \/ StopScheduler(p)
        \/ SchedReturn(p)

SpecSched == InitSched /\ [][NextSched]_vars

\* ---------------------------------------------------------------- conversions
\* one resource and one payload, converted
InitConv ==
    /\ devices = InitCacheDevices({})
    /\ profiles = {}
    /\ sched = [n \in DevNames |-> 0]
    /\ InitCbIdle
    /\ InitBusIdle
    /\ boot = BootServing
    /\ cron = [IdleCron EXCEPT !.started = TRUE, !.running = TRUE]
    /\ \E dr \in Resources : \E dat \in Payloads(dr) :
          conv = [IdleConv EXCEPT !.pc = "resource", !.dr = dr, !.dat = dat]
    /\ disc = IdleDisc
    /\ core = IdleCore

NextConv ==
    \/ GetReadValues
    \/ \E isByteSwap, isWordSwap \in BOOLEAN, impl \in ImplDependent :
          SetResult(isByteSwap, isWordSwap, impl)
    \/ \E impl \in ImplDependent : SetWriteValue(impl)
    \/ \E isByteSwap, isWordSwap \in BOOLEAN : SwapBytes(isByteSwap, isWordSwap)

SpecConv == InitConv /\ [][NextConv]_vars

\* ---------------------------------------------------------------- read commands
\* read commands of up to MaxReqs requests for resources without swap: an
\* Integer and a Bool resource, one of a value type setResult does not
\* convert, one with a malformed address, one without PrimaryTable
InitRead ==
    /\ devices = InitCacheDevices({})
    /\ profiles = {}
    /\ sched = [n \in DevNames |-> 0]
    /\ InitCbIdle
    /\ InitBusIdle
    /\ boot = BootServing
    /\ cron = [IdleCron EXCEPT !.started = TRUE, !.running = TRUE]
    /\ disc = IdleDisc
    /\ core = IdleCore
    /\ LET A(dr) == dr.Attributes
           Has(dr, k, v) == k \in DOMAIN A(dr) /\ A(dr)[k] = v
           rs == {dr \in Resources :
                    /\ dr.Precision = <<>>
                    /\ Has(dr, "IsByteSwap", "false")
                    /\ Has(dr, "IsWordSwap", "false")
                    /\ \/ Has(dr, "ValueType", "UINT16") /\ dr.Type = "Integer"
                       \/ Has(dr, "ValueType", "BOOL") /\ dr.Type = "Bool"
                       \/ Has(dr, "ValueType", "UINT8") /\ dr.Type = "Integer"
                       \/ "PrimaryTable" \notin DOMAIN A(dr)}
       IN \E n \in 1..MaxReqs : \E reqs \in [1..n -> rs] :
             conv = [IdleConv EXCEPT !.pc = "requests", !.reqs = reqs]

NextRead ==
    \E out \in Outcomes, dat \in UNION {Payloads(dr) : dr \in Resources},
       impl \in ImplDependent :
        HandleReadCommands(out, dat, impl)

SpecRead == InitRead /\ [][NextRead]_vars

\* ---------------------------------------------------------------- RTU configuration
\* the UnitID property of a ModbusRTU protocol map: missing, or a string of
\* up to three characters out of the digits, the signs and "x"
InitRTU ==
    /\ devices = InitCacheDevices({})
    /\ profiles = {}
    /\ sched = [n \in DevNames |-> 0]
    /\ InitCbIdle
    /\ InitBusIdle
    /\ boot = BootServing
    /\ cron = [IdleCron EXCEPT !.started = TRUE, !.running = TRUE]
    /\ disc = IdleDisc
    /\ core = IdleCore
    /\ \E n \in 0..3 : \E unitID \in [1..n -> {43, 45, 120} \cup (48..57)] :
          conv = [IdleConv EXCEPT !.pc = "protocol", !.dat = unitID]

NextRTU == GetRTUConfig

SpecRTU == InitRTU /\ [][NextRTU]_vars

\* ---------------------------------------------------------------- discovery
\* candidates of a scan of the serial bus, assigned against a cache that has
\* or has not the device X_SN:123 and any of three watchers: one named as
\* the Model it matches, one with another name, one named as a Model it does
\* not match
InitDisc ==
    /\ \E ds \in {{}, {[MkDevice("d1", "pA", ProtoRTU(1), Enabled, Unlocked, 0)
                          EXCEPT !.name = "X_SN:123"]}} :
          devices = InitCacheDevices(ds)
    /\ profiles = {"pA", "pB"}
    /\ sched = [n \in DevNames |-> 0]
    /\ InitCbIdle
    /\ InitBusIdle
    /\ boot = BootServing
    /\ cron = [IdleCron EXCEPT !.started = TRUE, !.running = TRUE]
    /\ conv = IdleConv
    /\ \E ws \in SUBSET {[name |-> "X", profile |-> "pA", matches |-> {"X"}],
                         [name |-> "w1", profile |-> "pB", matches |-> {"X", "Z"}],
                         [name |-> "Z", profile |-> "pB", matches |-> {}]} :
          disc = [IdleDisc EXCEPT !.watchers = ws]
    /\ core = IdleCore

NextDisc ==
    \E model \in {"X", "Z"}, serial \in {"123", "124"}, createOk \in BOOLEAN :
        discoverAssign([Model |-> model, SerialNum |-> serial,
                        protocols |-> ProtoRTU(1)], createOk)

SpecDisc == InitDisc /\ [][NextDisc]_vars

\* ---------------------------------------------------------------- operating state
\* commands for X, one after the other, and the arrival of their operating
\* state updates at Core
InitOp == InitBus

NextOp ==
    \/ \E kind \in {"read", "write"}, n \in 1..MaxReqs :
          CommandStart("c1", kind, "X", n)
    \/ CallStep("c1")
    \/ \E i \in 1..(2 * MaxCmds) : UpdateOpStateByName(i)

SpecOp == InitOp /\ [][NextOp]_vars

\* ---------------------------------------------------------------- claims
\* C1: at most one caller at a time is between a successful getClient and
\* its releaseClient for the same handle key, under any interleaving of
\* read commands, write commands and discovery scans.
C1_OneCallerPerHandle ==
    \A a, b \in Callers :
        (a # b /\ InTx(a) /\ InTx(b)) => call[a].handle # call[b].handle

\* C3: every device of the device cache has its profile name in the profile
\* cache, after the cache seed and any Device POST/PUT/DELETE and Profile
\* PUT callbacks.
C3_DeviceProfileCached ==
    \A id \in DOMAIN devices : devices[id].profile \in profiles

\* C4: once all callbacks have returned, the scheduler holds entries for a
\* device name exactly when the device is cached and not admin-locked, and
\* as many as the device has AutoEvents.
C4_SchedulerMatchesCache ==
    (\A w \in Workers : cb[w].pc = "idle") =>
        \A n \in DevNames :
            sched[n] = IF DevForName(n) THEN EntriesFor(DevByName(n)) ELSE 0

\* the operations a callback has called, in order
CallOps(r) == [i \in 1..Len(r.calls) |-> r.calls[i][1]]
IsDone(w, m) ==
    cb[w].pc = "done" /\ cb[w].action = "DEVICE" /\ cb[w].method = m

\* C8 (state part): a finished Device POST that found the profile cached has
\* not called Profiles.Add; a successful one has called Devices.Add and then
\* RestartForDevice for the device name, each once, after Profiles.Add when
\* the profile was absent.
C8_PostCalls ==
    \A w \in Workers : IsDone(w, "POST") =>
        /\ cb[w].hadProf = "yes" => \A i \in 1..Len(cb[w].calls) :
                                        cb[w].calls[i][1] # "Profiles.Add"
        /\ cb[w].res = "ok" =>
              /\ CallOps(cb[w]) =
                    IF cb[w].hadProf = "yes"
                    THEN <<"Devices.Add", "RestartForDevice">>
                    ELSE <<"Profiles.Add", "Devices.Add", "RestartForDevice">>
              /\ cb[w].calls[Len(cb[w].calls)][2] = DevName(cb[w].id)

\* C8 (step part): the profile check of a POST goes on to the device Add
\* without touching the profile cache when the profile is cached, and to the
\* profile Add when it is not; a profile Add and a device Add that do not
\* collide put the profile and the fetched device into their caches.
C8_PostSteps ==
    \A w \in Workers :
        /\ (cb[w].pc = "post_prof" /\ cb'[w].pc # "post_prof") =>
              /\ profiles' = profiles
              /\ cb'[w].pc = IF cb[w].dev.profile \in profiles
                             THEN "post_dev" ELSE "post_padd"
        /\ (cb[w].pc = "post_padd" /\ cb'[w].pc = "post_dev") =>
              cb[w].dev.profile \in profiles'
        /\ (cb[w].pc = "post_dev" /\ cb'[w].pc # "post_dev"
              /\ cb[w].dev.id \notin DOMAIN devices) =>
              /\ cb'[w].pc = "post_sched"
              /\ cb[w].dev.id \in DOMAIN devices'
              /\ devices'[cb[w].dev.id] = cb[w].dev

\* C8: a Device POST for a device whose profile is cached does not add the
\* profile again, adds the device and calls RestartForDevice for its name
\* exactly once; an absent profile is added before the device.
C8_Post == []C8_PostCalls /\ [][C8_PostSteps]_vars

C8_Witness ==
    \E w \in Workers :
        IsDone(w, "POST") /\ cb[w].hadProf = "yes" /\ cb[w].res = "ok"
        /\ DevForId(cb[w].id)

\* C9 as stated: a Device DELETE for an id that is not cached returns a
\* BadRequest error and makes no scheduler call.
C9_DeleteUnknownBadRequest ==
    \A w \in Workers :
        (IsDone(w, "DELETE") /\ cb[w].found = "no" /\ cb[w].res # "ok") =>
            /\ cb[w].res = BadRequest
            /\ CallOps(cb[w]) = <<"Devices.Remove">>

\* C9 (state part): a DELETE whose lookup found no device makes no scheduler
\* call, and the error it returns is a ServerError.
C9_DeleteUnknownCalls ==
    \A w \in Workers :
        (IsDone(w, "DELETE") /\ cb[w].found = "no") =>
            /\ CallOps(cb[w]) = <<"Devices.Remove">>
            /\ cb[w].res \in {ServerError, "ok"}

\* C9 (step part): a Remove of an id that is not cached returns a
\* ServerError and leaves both caches and the scheduler unchanged.
C9_DeleteUnknownSteps ==
    \A w \in Workers :
        (cb[w].pc = "del_rm" /\ cb'[w].pc = "done"
            /\ cb[w].id \notin DOMAIN devices) =>
            /\ cb'[w].res = ServerError
            /\ UNCHANGED <<devices, profiles, sched>>

\* C9 amended: a Device DELETE for an id that is not cached returns a
\* ServerError, leaves both caches unchanged and makes no scheduler call.
C9_DeleteUnknown == []C9_DeleteUnknownCalls /\ [][C9_DeleteUnknownSteps]_vars

C9_Witness ==
    \E w \in Workers :
        IsDone(w, "DELETE") /\ cb[w].found = "no" /\ cb[w].res = ServerError

\* C10: a Device DELETE for a cached device calls StopForDevice for its name
\* before it removes the device, and when the removal succeeds the device is
\* absent from the cache and has no scheduler entries.
C10_DeleteStopsThenRemoves ==
    [][\A w \in Workers :
        (cb[w].pc = "del_rm" /\ cb'[w].pc = "done" /\ cb[w].found = "yes"
            /\ cb'[w].res = "ok") =>
            /\ CallOps(cb'[w]) = <<"StopForDevice", "Devices.Remove">>
            /\ cb'[w].calls[1][2] = DevName(cb[w].id)
            /\ cb[w].id \notin DOMAIN devices'
            /\ sched'[DevName(cb[w].id)] = 0]_vars

IsCommand(c) == call[c].kind \in {"read", "write"}

\* C2: two command executions for the same device never have their driver
\* transactions in progress at the same time, also when a Device PUT
\* callback changes the device's protocols between them.
C2_OneCommandPerDevice ==
    \A a, b \in Callers :
        (a # b /\ IsCommand(a) /\ IsCommand(b)
            /\ call[a].pc = "io" /\ call[b].pc = "io") =>
            call[a].name # call[b].name

\* C5 (steps): after a transaction that timed out on a device cached as
\* Enabled the handler goes on to write Disabled, after a successful one on
\* a device cached as Disabled to write Enabled, and the write is the cache
\* Update of the device read, with the new operating state.
C5_OpStateSteps ==
    \A c \in Callers :
        /\ (call[c].pc = "opRead" /\ call'[c].pc # "opRead") =>
              LET e == call[c].outs[Len(call[c].outs)]
                  d == DevByName(call[c].name)
              IN /\ (IsTimeout(e) /\ d.opState = Enabled) =>
                        (call'[c].pc = "opWrite" /\ call'[c].newState = Disabled
                            /\ call'[c].copy = d)
                 /\ (e = Ok /\ d.opState = Disabled) =>
                        (call'[c].pc = "opWrite" /\ call'[c].newState = Enabled
                            /\ call'[c].copy = d)
        /\ (call[c].pc = "opWrite" /\ call'[c].pc # "opWrite") =>
              /\ devices' = DevUpdate([call[c].copy EXCEPT
                                          !.opState = call[c].newState])
              /\ devices'[call[c].copy.id].opState = call[c].newState

\* C5: in HandleReadCommands and HandleWriteCommands a timeout on a device
\* cached as Enabled sets its cached operating state to Disabled, a success
\* on a device cached as Disabled sets it to Enabled, both through the
\* device cache Update.
C5_OpStateFollowsOutcome == [][C5_OpStateSteps]_vars

C5_Witness ==
    /\ Len(transLog) >= 2
    /\ transLog[1] = <<"X", Disabled>>
    /\ transLog[2] = <<"X", Enabled>>
    /\ DevByName("X").opState = Enabled

\* C6: UpdateOpStateByName is called exactly once per operating-state
\* transition of the cache and never otherwise: the calls made are the
\* transitions made, in their order.
C6_OneCallPerTransition == opCalls = transLog

C7_OneAttempt ==
    \A c \in Callers : IsCommand(c) =>
        /\ Len(call[c].outs) <= call[c].nReq
        /\ \A i \in 1..(Len(call[c].outs) - 1) : call[c].outs[i] = Ok
        /\ (call[c].pc = "done" /\ call[c].outs # <<>>) =>
              call[c].res = call[c].outs[Len(call[c].outs)]

\* C7 (step part): the one attempt that timed out on a device cached as
\* Enabled is followed by the write of Disabled, and no further transaction
\* of the command follows an error.
C7_TimeoutSteps ==
    \A c \in Callers : IsCommand(c) =>
        /\ (call[c].pc = "opRead" /\ call'[c].pc # "opRead"
              /\ IsTimeout(call[c].outs[Len(call[c].outs)])) =>
              call'[c].pc = IF DevByName(call[c].name).opState = Enabled
                            THEN "opWrite" ELSE "release"
        /\ (call[c].pc = "opWrite" /\ call'[c].pc # "opWrite"
              /\ call[c].outs[Len(call[c].outs)] # Ok) =>
              /\ call'[c].pc = "release"
              /\ devices'[call[c].copy.id].opState = Disabled

C11_PutUpdatesOrAdds ==
    [][\A w \in Workers :
        /\ (cb[w].pc = "put_upd" /\ cb'[w].pc # "put_upd") =>
              /\ cb'[w].pc = "put_sched"
              /\ cb[w].dev.id \in DOMAIN devices'
              /\ devices'[cb[w].dev.id] = cb[w].dev
        /\ (cb[w].pc = "put_sched" /\ cb'[w].pc # "put_sched") =>
              /\ cb'[w].res = "ok"
              /\ CallOps(cb'[w]) = <<"Devices.Update", "RestartForDevice">>]_vars

\* the device cache or the profile cache refuses the mutation the callback
\* is about to make
MutationFails(w) ==
    \/ cb[w].pc = "post_padd" /\ ~ProfAddOk(cb[w].dev.profile)
    \/ cb[w].pc = "post_dev" /\ ~DevAddOk(cb[w].dev)
    \/ cb[w].pc = "put_upd" /\ ~DevUpdateOk(cb[w].dev)
    \/ cb[w].pc = "del_rm" /\ ~DevRemoveOk(cb[w].id)
    \/ cb[w].pc = "prof_upd" /\ ~ProfUpdateOk(cb[w].prof)

\* C12 (state part): a callback whose fetch from Metadata failed has returned
\* a bad-request error and has called neither cache nor scheduler; one whose
\* fetch succeeded has not stopped at the fetch.
C12_FetchFailure ==
    \A w \in Workers :
        /\ cb[w].fetch = "err" =>
              (cb[w].pc = "done" /\ cb[w].res = BadRequest /\ cb[w].calls = <<>>)
        /\ (cb[w].fetch = "ok" /\ cb[w].pc = "done") => cb[w].calls # <<>>

\* C12 (step part): the step that fails the fetch changes neither cache nor
\* the scheduler; a refused Add, Update or Remove ends the callback with a
\* server error.
C12_FailureSteps ==
    \A w \in Workers :
        /\ (cb[w].fetch = "" /\ cb'[w].fetch = "err") => UNCHANGED cacheVars
        /\ (MutationFails(w) /\ cb'[w] # cb[w]) =>
              (cb'[w].pc = "done" /\ cb'[w].res = ServerError)

\* C12: in handleDevice and handleProfile a failed fetch returns a
\* bad-request error and leaves both caches and the scheduler unchanged; a
\* failed cache Add, Update or Remove returns a server error.
C12_Errors == []C12_FetchFailure /\ [][C12_FailureSteps]_vars

C12_Witness ==
    \E w, v \in Workers :
        /\ cb[w].pc = "done" /\ cb[w].fetch = "err" /\ cb[w].action = "DEVICE"
        /\ cb[v].pc = "done" /\ cb[v].fetch = "ok" /\ cb[v].res = ServerError

\* the alert is one CallbackHandler refuses before any fetch
Refused(r) ==
    \/ r.id = "" \/ r.action = ""
    \/ r.action \notin {"DEVICE", "PROFILE"}
    \/ r.action = "DEVICE" /\ r.method \notin {"POST", "PUT", "DELETE"}
    \/ r.action = "PROFILE" /\ r.method # "PUT"

\* C13: CallbackHandler returns a bad-request error, without a Metadata
\* fetch, a cache mutation or a scheduler call, when the id or the action
\* type is empty, the action type is neither DEVICE nor PROFILE, or the
\* method is not one the action type accepts.
C13_RefusedAlerts ==
    \A w \in Workers :
        (cb[w].pc # "idle" /\ Refused(cb[w])) =>
            /\ cb[w].pc = "done"
            /\ cb[w].res = BadRequest
            /\ cb[w].fetch = ""
            /\ cb[w].calls = <<>>

C13_Witness ==
    \E w, v \in Workers :
        /\ cb[w].pc = "done" /\ cb[w].action = "ADDRESSABLE" /\ cb[w].id # ""
        /\ cb[v].pc = "done" /\ cb[v].action = "DEVICE" /\ cb[v].method = "GET"
        /\ cb[v].id # ""

\* C14 (state part): a Profile callback with another method than PUT is
\* refused before the fetch; a PUT that fetched the profile calls the
\* profile cache Update and nothing else.
C14_ProfileCalls ==
    \A w \in Workers :
        (cb[w].pc = "done" /\ cb[w].action = "PROFILE" /\ cb[w].id # "") =>
            /\ cb[w].method # "PUT" => (cb[w].fetch = "" /\ cb[w].calls = <<>>)
            /\ cb[w].fetch = "ok" =>
                  cb[w].calls = <<<<"Profiles.Update", cb[w].prof>>>>

\* C14 (step part): no step of a Profile callback changes the device cache
\* or a scheduler entry.
C14_ProfileSteps ==
    \A w \in Workers :
        ((cb[w].action = "PROFILE" \/ cb'[w].action = "PROFILE")
            /\ cb'[w] # cb[w]) => UNCHANGED <<devices, sched>>

\* C14: a Profile callback is accepted only with method PUT; it fetches the
\* profile and updates the profile cache, and it leaves the device cache and
\* every scheduler entry unchanged.
C14_ProfilePut == []C14_ProfileCalls /\ [][C14_ProfileSteps]_vars

C14_Witness ==
    \E w \in Workers :
        /\ cb[w].pc = "done" /\ cb[w].action = "PROFILE" /\ cb[w].method = "PUT"
        /\ cb[w].res = "ok" /\ DevForName("X") /\ sched["X"] > 0

\* a finished POST whose profile Add succeeded and whose device Add failed
PostAddFailed(w) ==
    /\ IsDone(w, "POST") /\ cb[w].hadProf = "no"
    /\ CallOps(cb[w]) = <<"Profiles.Add", "Devices.Add">>

\* C15 as stated: in a Device POST callback whose profile Add succeeds and
\* whose device Add fails, a server error is returned, the added profile
\* remains cached, the device is not in the device cache and
\* RestartForDevice is not called.
C15_AddFailureNoDevice ==
    \A w \in Workers : PostAddFailed(w) =>
        /\ cb[w].res = ServerError
        /\ cb[w].calls[1][2] \in profiles
        /\ cb[w].id \notin DOMAIN devices

\* C15 (step part): a device Add that fails leaves both caches and the
\* scheduler as they are.
C15_AddFailureSteps ==
    \A w \in Workers :
        (cb[w].pc = "post_dev" /\ cb'[w].pc = "done") => UNCHANGED cacheVars

\* C15 (state part): the POST has returned a server error, the profile it
\* added is cached and RestartForDevice was not called.
C15_AddFailureCalls ==
    \A w \in Workers : PostAddFailed(w) =>
        /\ cb[w].res = ServerError
        /\ cb[w].calls[1][2] \in profiles

\* C15 amended: the device Add that fails leaves the device cache unchanged
\* (the device it collides with stays cached); the rest as stated.
C15_AddFailure == []C15_AddFailureCalls /\ [][C15_AddFailureSteps]_vars

C15_Witness ==
    \E w \in Workers :
        PostAddFailed(w) /\ cb[w].res = ServerError /\ cb[w].id \in DOMAIN devices

AllFailed(pings) == \A i \in 1..Len(pings) : ~pings[i]

\* C16: checkServiceAvailable pings a dependency at most ConnectRetries
\* times, stops at the first ping that answers and then reports success, and
\* reports the time out error exactly when all ConnectRetries pings failed;
\* checkDependencyServices fails if either checker failed and succeeds only
\* if both succeeded.
C16_DependencyCheck ==
    /\ \A s \in Deps :
          LET d == boot.dep[s]
          IN /\ Len(d.pings) <= boot.retries
             /\ \A i \in 1..(Len(d.pings) - 1) : ~d.pings[i]
             /\ d.pc = "ping" => AllFailed(d.pings)
             /\ d.pc = "done" =>
                   /\ d.err \in {"", TimeOutError(s)}
                   /\ d.err = "" <=> (d.pings # <<>> /\ d.pings[Len(d.pings)])
                   /\ d.err # "" <=>
                         (Len(d.pings) = boot.retries /\ AllFailed(d.pings))
    /\ (boot.pc # "checking" /\ \A s \in Deps : boot.dep[s].pc = "done") =>
          (boot.pc = "failed" <=> \E s \in Deps : boot.dep[s].err # "")

C16_Witness ==
    /\ boot.pc = "failed"
    /\ boot.retries = MaxRetries
    /\ boot.dep["Metadata"].err = "service dependency Metadata checking time out"
    /\ Len(boot.dep["Metadata"].pings) = MaxRetries
    /\ boot.dep["Data"].err = ""
    /\ Len(boot.dep["Data"].pings) = MaxRetries

BootOrder ==
    <<"validate", "logging", "ping", "clients", "seed", "scheduler", "http">>
ConfigMissing(cfg) == ~cfg.mdHost \/ ~cfg.mdPort \/ ~cfg.cdHost \/ ~cfg.cdPort

\* C17: InitDependencyClients runs validate config, logging sink, dependency
\* ping and typed clients in this order; no ping is sent when a host or port
\* of Metadata or Core Data is missing; the typed clients are constructed
\* only after both pings succeeded; a failure returns an error and no later
\* phase runs.
C17_PhaseOrder ==
    /\ Len(boot.phases) <= Len(BootOrder)
    /\ \A i \in 1..Len(boot.phases) : boot.phases[i] = BootOrder[i]
    /\ (boot.pc # "idle" /\ ConfigMissing(boot.cfg)) =>
          /\ boot.pc = "failed" /\ boot.err # ""
          /\ boot.phases = <<"validate">>
          /\ \A s \in Deps : boot.dep[s] = IdleDep
    /\ Len(boot.phases) >= 4 =>
          \A s \in Deps :
              /\ boot.dep[s].pc = "done" /\ boot.dep[s].err = ""
              /\ boot.dep[s].pings # <<>>
              /\ boot.dep[s].pings[Len(boot.dep[s].pings)]
    /\ boot.pc = "failed" => (boot.err # "" /\ Len(boot.phases) < 4)

C17_Witness ==
    /\ boot.pc = "failed"
    /\ boot.cfg = [mdHost |-> TRUE, mdPort |-> TRUE, cdHost |-> TRUE,
                   cdPort |-> FALSE]
    /\ boot.retries > 0

C19_SeedFailureFatal ==
    boot.seedErr => boot.pc \notin {"scheduled", "serving"}

\* C20: every addition and removal of a scheduler entry is made while the
\* cron engine is paused, and the engine runs again when the operation
\* returns, with an error or not (unless the scheduler was stopped or another
\* call has it paused).
C20_PausedWhileChanged ==
    [][/\ cron'.engine # cron.engine => ~cron.running
       /\ \A p \in SchedCallers :
             (/\ cron.proc[p].op \in {"add", "remove"}
              /\ cron.proc[p].pc # "done" /\ cron'.proc[p].pc = "done"
              /\ ~cron.stopped
              /\ \A q \in SchedCallers \ {p} : cron.proc[q].pc = "idle") =>
                cron'.running]_vars

\* C21: after StopScheduler the cron engine stays stopped under every later
\* sequence of scheduler operations.
C21_StoppedStaysStopped == cron.stopped => ~cron.running

\* the integer an Int64 value of up to 24 bits holds, and the int64 a payload
\* is when read as an unsigned and as a two's complement number
Int64Of(nv) ==
    LET low == 65536 * nv[6] + 256 * nv[7] + nv[8]
    IN IF \A i \in 1..5 : nv[i] = 0 THEN low
       ELSE IF \A i \in 1..5 : nv[i] = 255 THEN low - 16777216
       ELSE 16777216
ZeroExtend(d) == [i \in 1..(8 - Len(d)) |-> 0] \o d
SignExtend(d) == [i \in 1..(8 - Len(d)) |-> IF d[1] >= 128 THEN 255 ELSE 0] \o d
NoSwap(c) == ~c.isByteSwap /\ ~c.isWordSwap
NumericTypes == {"UINT16", "INT16", "UINT32", "INT32", "UINT64", "INT64",
                 "FLOAT32", "FLOAT64"}
TrueStrings == {"true", "True", "TRUE"}

\* C22: a two-byte payload read with vType UINT16, result type Integer and no
\* swap gives the Integer 256*b0 + b1, e.g. [0x01,0x2C] gives 300.
C22_Uint16BigEndian ==
    [][(/\ conv.pc = "config"
        /\ conv'.pc # "config"
        /\ conv'.readConf.vType = "UINT16"
        /\ conv'.readConf.resultType = "Integer"
        /\ NoSwap(conv'.readConf)
        /\ Len(conv.dat) = 2) =>
           /\ conv'.pc = "value"
           /\ conv'.value.Type = "Int64"
           /\ Int64Of(conv'.value.NumericValue) = 256 * conv.dat[1] + conv.dat[2]
           /\ conv.dat = <<1, 44>> => Int64Of(conv'.value.NumericValue) = 300]_vars
C22_Witness ==
    /\ conv.pc = "value"
    /\ conv.readConf.vType = "UINT16"
    /\ conv.readConf.resultType = "Integer"
    /\ NoSwap(conv.readConf)
    /\ conv.dat = <<1, 44>>
    /\ Int64Of(conv.value.NumericValue) = 300

\* C23: for each of the eight numeric value types and each setting of the
\* swap flags, decoding a well-formed payload (setResult) and encoding the
\* value again with the same flags (setWriteValue) gives the payload back.
C23_RoundTrip ==
    [][(/\ conv.pc = "value"
        /\ conv'.pc # "value"
        /\ conv.readConf.vType \in NumericTypes
        /\ conv.readConf.resultType =
              (IF conv.readConf.vType \in {"FLOAT32", "FLOAT64"} THEN "Float"
               ELSE "Integer")
        /\ Len(conv.dat) = 2 * SizeOf(conv.readConf.vType)) =>
           /\ conv'.pc = "written"
           /\ conv'.data = conv.dat]_vars

\* C24: the read configuration has isByteSwap true exactly when the attribute
\* IsByteSwap is true, and isWordSwap true exactly when IsWordSwap is true.
C24_SwapAttributes ==
    conv.pc = "config" =>
        /\ conv.readConfig.isByteSwap <=> (conv.dr.Attributes["IsByteSwap"] \in TrueStrings)
        /\ conv.readConfig.isWordSwap <=> (conv.dr.Attributes["IsWordSwap"] \in TrueStrings)

\* the bytes of every 16-bit word exchanged; adjacent 16-bit words exchanged
\* (on 8 bytes: pairwise, or the order of the four words reversed)
ByteSwapOf(d) == [i \in 1..Len(d) |-> IF i % 2 = 1 THEN d[i + 1] ELSE d[i - 1]]
WordSwapsOf(d) ==
    IF Len(d) = 2 THEN {d}
    ELSE IF Len(d) = 4 THEN {<<d[3], d[4], d[1], d[2]>>}
    ELSE {<<d[3], d[4], d[1], d[2], d[7], d[8], d[5], d[6]>>,
          <<d[7], d[8], d[5], d[6], d[3], d[4], d[1], d[2]>>}

\* C25: on 2, 4 and 8 bytes swapBitDataBytes applies the two swaps
\* independently: the byte swap, the word swap, with both flags their
\* composition, and a 2-byte value with only the word swap comes back
\* unchanged.
C25_SwapsCompose ==
    (conv.pc = "swapped" /\ Len(conv.dat) \in {2, 4, 8}) =>
        conv.swapped \in
            LET b == IF conv.readConf.isByteSwap THEN ByteSwapOf(conv.dat)
                     ELSE conv.dat
            IN IF conv.readConf.isWordSwap THEN WordSwapsOf(b) ELSE {b}

\* C26: with result type Integer, INT16, INT32 and INT64 give the two's
\* complement value of the big-endian bytes ([0xFF,0xFF] gives -1) and UINT16,
\* UINT32 the unsigned value.
C26_SignedDecode ==
    (/\ conv.pc = "value"
     /\ conv.readConf.resultType = "Integer"
     /\ NoSwap(conv.readConf)
     /\ Len(conv.dat) = 2 * SizeOf(conv.readConf.vType)) =>
        /\ conv.readConf.vType \in {"INT16", "INT32", "INT64"} =>
              conv.value.NumericValue = SignExtend(conv.dat)
        /\ conv.readConf.vType \in {"UINT16", "UINT32"} =>
              conv.value.NumericValue = ZeroExtend(conv.dat)
        /\ (conv.readConf.vType = "INT16" /\ conv.dat = <<255, 255>>) =>
              Int64Of(conv.value.NumericValue) = 0 - 1

\* the watchers whose identifier pattern matches a candidate
Matching(cand) == {w \in disc.watchers : cand.Model \in w.matches}

\* C27: discoverAssign creates in Core a device named <Model>_SN:<SerialNum>
\* with the profile of the matching watcher and the protocols of the
\* candidate exactly when no device of that name is cached and a watcher
\* matches; without a matching watcher it returns an error and creates
\* nothing; it never writes the device cache.
C27_DiscoverAssign ==
    [][disc'.calls = disc.calls + 1 =>
          LET cand == disc'.cand
              name == cand.Model \o "_SN:" \o cand.SerialNum
              posted == Len(disc'.posts) = Len(disc.posts) + 1
              conf == disc'.posts[Len(disc'.posts)].conf
          IN /\ posted <=> (~DevForName(name) /\ Matching(cand) # {})
             /\ posted => /\ conf.Name = name
                          /\ conf.Profile \in {w.profile : w \in Matching(cand)}
                          /\ conf.Protocols = cand.protocols
             /\ (~DevForName(name) /\ Matching(cand) = {}) =>
                   (~posted /\ disc'.err # "")
             /\ devices' = devices]_vars

\* the handle key a caller is after: of its handle, or of its protocols
\* while it has none
KeyOf(c) ==
    IF call[c].handle # NilHandle THEN call[c].handle[1]
    ELSE call[c].protocols.addr
\* the caller waits for or holds the mutex of its handle
HoldsOrWaits(c) ==
    call[c].pc \in {"lock", "connect", "io", "opRead", "opWrite", "release"}
\* the caller is inside getClient and cannot take its next step
Stuck(c) ==
    \/ call[c].pc = "getClient" /\ ~ENABLED GetClient(c)
    \/ call[c].pc = "mapLocked" /\ ~ENABLED MapLookup(c)
    \/ call[c].pc = "lock" /\ ~ENABLED Lock(c)

\* C28: mapMutex is held only between its Lock and the lookup, never while a
\* caller waits for a handle mutex, connects or does Modbus I/O; a caller
\* that holds or waits for one handle key never blocks a getClient for
\* another key.
C28_KeysIndependent ==
    ~crashed =>
       /\ \A c \in Callers : mapMutex = c => call[c].pc = "mapLocked"
       /\ \A c, d \in Callers :
             (c # d /\ HoldsOrWaits(d) /\ KeyOf(c) # KeyOf(d)) => ~Stuck(c)

C28_Witness ==
    /\ ~crashed
    /\ \E c, d \in Callers :
          /\ call[d].pc = "io" /\ KeyOf(d) = SerialAddress
          /\ call[c].pc = "mapLocked" /\ KeyOf(c) = TcpAddress

\* the caller has locked the mutex of its handle and not yet unlocked it
Holds(c) ==
    call[c].pc \in {"connect", "io", "opRead", "opWrite", "release"}

\* C29: a handle mutex is unlocked only by the caller that holds it, and
\* releaseClient is never called with a nil handle or with a handle whose
\* mutex the caller does not hold, on every path of the commands and of
\* discoverScan.
C29_ReleasedByHolder ==
    [][(\A h \in DOMAIN mutex :
           (mutex[h] /\ ~mutex'[h]) =>
              \E c \in Callers : /\ Holds(c) /\ call[c].handle = h
                                 /\ ~(Holds(c))')
       /\ (\A c \in Callers :
              (call[c].pc \in {"release", "scanRelease"}
                  /\ call'[c].pc # call[c].pc) =>
                 /\ call[c].handle # NilHandle
                 /\ Holds(c)
                 /\ mutex[call[c].handle])]_vars

\* C30: at most one ModbusDevice is ever made for a handle key, the entry of
\* a key is never replaced or removed, and all callers of a key have the
\* same handle.
C30_OneHandlePerKey ==
    /\ [](/\ \A k \in Keys : mMap[k] <= 1
          /\ \A c \in Callers :
                call[c].handle # NilHandle =>
                   call[c].handle = <<KeyOf(c), mMap[KeyOf(c)]>>)
    /\ [][\A k \in Keys : mMap[k] # 0 => mMap'[k] = mMap[k]]_vars

C30_Witness ==
    \E c, d \in Callers :
        /\ c # d
        /\ call[c].pc = "io" /\ call[d].pc = "lock"
        /\ call[c].handle = call[d].handle

\* C31: while a command or scan of an RTU device does its transactions, the
\* SlaveId of the RTU handler is the unit id of that caller's device; the
\* settings are written only by a caller that holds the handle mutex, and by
\* no other caller before the holder has released it.
C31_SlaveIdOfHolder ==
    /\ [](\A c \in Callers :
             (call[c].pc = "io" /\ call[c].protocols.kind = "ModbusRTU") =>
                rtuHandler[call[c].handle] = call[c].protocols.unit)
    /\ [][\A h \in DOMAIN rtuHandler :
             rtuHandler'[h] # rtuHandler[h] =>
                /\ mutex[h]
                /\ \A c \in Callers :
                      (Holds(c) /\ call[c].handle = h) =>
                         rtuHandler'[h] = call[c].protocols.unit]_vars

\* C32: updateOperatingState leaves the cached operating state as it is and
\* issues no UpdateOpStateByName call after an error that is no timeout,
\* after a timeout on a device cached as Disabled and after a success on a
\* device cached as Enabled.
C32_NoTransition ==
    [][\A c \in Callers :
          (call[c].pc = "opRead" /\ call'[c].pc # "opRead") =>
             LET e == call[c].outs[Len(call[c].outs)]
                 d == DevByName(call[c].name)
             IN (\/ e # Ok /\ ~IsTimeout(e)
                 \/ IsTimeout(e) /\ d.opState = Disabled
                 \/ e = Ok /\ d.opState = Enabled) =>
                   /\ call'[c].pc # "opWrite"
                   /\ devices' = devices
                   /\ opCalls' = opCalls]_vars

C32_Witness ==
    \E c \in Callers :
        /\ call[c].pc = "release"
        /\ call[c].outs = <<IllegalAddress>>
        /\ DevByName(call[c].name).opState = Enabled
        /\ opCalls = <<>>

\* C33: the cache write of updateOperatingState changes only the operating
\* state of its device: what a Device PUT callback wrote between the cache
\* read and the cache write stays, and a device removed in between is not
\* put back.
C33_OnlyOperatingState ==
    [][\A c \in Callers :
          (call[c].pc = "opWrite" /\ call'[c].pc # "opWrite") =>
             LET id == call[c].copy.id
             IN devices' = IF id \in DOMAIN devices
                           THEN [devices EXCEPT
                                    ![id].opState = call[c].newState]
                           ELSE devices]_vars

\* C34: once no command runs and every UpdateOpStateByName call has arrived,
\* the operating state Core was given last for a device is the operating
\* state of the device in the cache.
C34_CoreFollowsCache ==
    ((\A c \in Callers : call[c].pc = "idle")
        /\ core.arrived = 1..Len(opCalls)) =>
       \A n \in DevNames :
           core.opState[n] # "" => core.opState[n] = DevByName(n).opState

\* C35: checkDependencyServices terminates: a checker pings at most
\* ConnectRetries times, the error channel never holds more than one error
\* per dependency, and once the checkers are started the wait returns, with
\* or without errors.
C35_CheckTerminates ==
    /\ [](\A s \in Deps : /\ Len(boot.dep[s].pings) <= boot.retries
                           /\ boot.errs <= Cardinality(Deps))
    /\ (boot.pc = "checking") ~> (boot.pc \in {"failed", "clients"})

C35_Witness ==
    /\ boot.pc = "failed"
    /\ boot.errs = Cardinality(Deps)
    /\ boot.retries > 0
    /\ \A s \in Deps : Len(boot.dep[s].pings) = boot.retries

\* the CommandValue type of a result type
TypeOf(rt) == IF rt = "Integer" THEN "Int64" ELSE rt

\* C36: HandleReadCommands ends by returning; when it returns no error there
\* is one CommandValue for every request, in the order of the requests, and
\* when a request fails it returns the error and has issued no Modbus read
\* for a later request.
C36_OneValuePerRequest ==
    /\ conv.pc # "panic"
    /\ conv.pc = "returned" =>
          /\ Len(conv.res) <= Len(conv.reqs)
          /\ \A j \in 1..Len(conv.res) :
                conv.res[j].Type = TypeOf(conv.reqs[j].Type)
          /\ conv.err = "" => Len(conv.res) = Len(conv.reqs)
          /\ conv.err # "" => /\ Len(conv.res) < Len(conv.reqs)
                              /\ conv.reads <= Len(conv.res) + 1

\* C37: when setResult returns no error, its CommandValue is not the empty
\* one and has the declared result type of the resource, for every value
\* type and every one of the result types Bool, String, Integer, Float and
\* Json.
C37_ValueOrError ==
    conv.pc = "value" =>
       /\ conv.value # EmptyValue
       /\ conv.readConf.resultType \in {"Bool", "String", "Integer", "Float"} =>
             conv.value.Type = IF conv.readConf.resultType = "Float"
                               THEN "Float64"
                               ELSE TypeOf(conv.readConf.resultType)

C39_UnitIdRange ==
    (conv.pc \in {"rtu", "failed"} /\ Atoi(conv.dat).ok) =>
       /\ conv.pc = "rtu" <=> Atoi(conv.dat).val \in 1..247
       /\ conv.pc = "rtu" => conv.data = <<Atoi(conv.dat).val>>

====
